---- MODULE Spec2Model ----
(***************************************************************************)
(* Model of the EHF analyser (src/extraction_complete.py).                 *)
(*                                                                         *)
(* Python strings are sequences of character codes, so that string         *)
(* comparison, substring search, upper-casing and splitting are computed   *)
(* as the interpreter computes them.  A dict is the sequence of its        *)
(* entries in insertion order; the iteration order of a set of strings is  *)
(* a nondeterministic choice (it depends on the interpreter's hash seed).  *)
(***************************************************************************)
EXTENDS Integers, Sequences, FiniteSets, TLC

(***************************************************************************)
(* Bounds of the model.                                                    *)
(***************************************************************************)
MaxMutations == 2
MaxLongueur == 4

(***************************************************************************)
(* String literals of the program and of the inputs, as character codes.   *)
(***************************************************************************)
NonTrouve == <<78, 111, 110, 32, 116, 114, 111, 117, 118, 233>>  \* "Non trouvé"
IMMEUBLE_ENTIER == <<73, 77, 77, 69, 85, 66, 76, 69, 95, 69, 78, 84, 73, 69, 82>>  \* "IMMEUBLE_ENTIER"
ImmeubleEntierLabel == <<73, 109, 109, 101, 117, 98, 108, 101, 32, 101, 110, 116, 105, 101, 114>>  \* "Immeuble entier"
PROPRIETAIRE_INCONNU == <<80, 82, 79, 80, 82, 73, 69, 84, 65, 73, 82, 69, 32, 73, 78, 67, 79, 78, 78, 85>>  \* "PROPRIETAIRE INCONNU"
INCONNU == <<73, 78, 67, 79, 78, 78, 85>>  \* "INCONNU"
DateDefaut == <<48, 48, 48, 48, 45, 48, 48, 45, 48, 48>>  \* "0000-00-00"

DateA == <<51, 49, 47, 48, 49, 47, 50, 48, 49, 48>>  \* "31/01/2010"
DateB == <<48, 49, 47, 48, 50, 47, 50, 48, 49, 49>>  \* "01/02/2011"
CommuneRef == <<80, 97, 114, 105, 115, 32, 49, 53>>  \* "Paris 15"
PARIS == <<80, 65, 82, 73, 83>>  \* "PARIS"
LYON == <<76, 89, 79, 78>>  \* "LYON"
CJ42 == <<67, 74, 32, 52, 50>>  \* "CJ 42"
AB7 == <<65, 66, 32, 55>>  \* "AB 7"
Code75 == <<55, 53>>  \* "75"
Lot9 == <<57>>  \* "9"
Lot17 == <<49, 55>>  \* "17"
US == <<85, 83>>  \* "US"
NI == <<78, 73>>  \* "NI"
Num1 == <<49>>  \* "1"
Num2 == <<50>>  \* "2"
NomX == <<88>>  \* "X"
NomY == <<89>>  \* "Y"
Naiss1 == <<48, 49, 47, 48, 49, 47, 49, 57, 55, 48>>  \* "01/01/1970"
Naiss2 == <<48, 50, 47, 48, 50, 47, 49, 57, 56, 48>>  \* "02/02/1980"

(***************************************************************************)
(* Python string and list primitives.                                      *)
(***************************************************************************)
ToSet(s) == {s[k] : k \in 1..Len(s)}

\* a < b on str: code-point lexicographic order, a proper prefix is smaller
StrLT(a, b) ==
    \E k \in 1..(Len(b)) :
        /\ k <= Len(a) + 1
        /\ \A n \in 1..(k - 1) : a[n] = b[n]
        /\ \/ k = Len(a) + 1
           \/ a[k] < b[k]

\* needle in hay
Contains(hay, needle) ==
    \E k \in 0..(Len(hay) - Len(needle)) : SubSeq(hay, k + 1, k + Len(needle)) = needle

UpperChar(c) ==
    IF (c >= 97 /\ c <= 122) \/ (c >= 224 /\ c <= 254 /\ c # 247) THEN c - 32 ELSE c

\* str.upper()
Upper(s) == [k \in 1..Len(s) |-> UpperChar(s[k])]

IsSpace(c) == c \in {9, 10, 11, 12, 13, 32}

RECURSIVE LStrip(_)
LStrip(s) == IF s # <<>> /\ IsSpace(s[1]) THEN LStrip(Tail(s)) ELSE s

RECURSIVE RStrip(_)
RStrip(s) == IF s # <<>> /\ IsSpace(s[Len(s)]) THEN RStrip(SubSeq(s, 1, Len(s) - 1)) ELSE s

\* str.strip()
Strip(s) == RStrip(LStrip(s))

\* str.split(sep) for a one-character separator
RECURSIVE Split(_, _)
Split(s, sep) ==
    IF \E k \in 1..Len(s) : s[k] = sep
    THEN LET p == CHOOSE k \in 1..Len(s) : s[k] = sep /\ \A n \in 1..(k - 1) : s[n] # sep
         IN  <<SubSeq(s, 1, p - 1)>> \o Split(SubSeq(s, p + 1, Len(s)), sep)
    ELSE <<s>>

\* str.zfill(2)
Zfill2(s) == IF Len(s) = 0 THEN <<48, 48>> ELSE IF Len(s) = 1 THEN <<48>> \o s ELSE s

\* list(dict.fromkeys(l)): duplicates removed, first occurrences kept in order
RECURSIVE Dedup(_)
Dedup(l) ==
    IF l = <<>> THEN <<>>
    ELSE LET d == Dedup(SubSeq(l, 1, Len(l) - 1))
         IN  IF l[Len(l)] \in ToSet(d) THEN d ELSE Append(d, l[Len(l)])

\* sorted(S) for a collection of distinct strings
RECURSIVE SortedSeq(_)
SortedSeq(S) ==
    IF S = {} THEN <<>>
    ELSE LET m == CHOOSE x \in S : \A y \in S \ {x} : StrLT(x, y)
         IN  <<m>> \o SortedSeq(S \ {m})

\* the orders in which a for loop may visit a set of strings
Ordres(S) == {o \in [1..Cardinality(S) -> S] : ToSet(o) = S}

RECURSIVE Concat(_)
Concat(ll) == IF ll = <<>> THEN <<>> ELSE ll[1] \o Concat(Tail(ll))

(***************************************************************************)
(* Records of the pipeline.                                                *)
(***************************************************************************)
Personne(numero, designation, date_naissance) ==
    [numero |-> numero, designation |-> designation, date_naissance |-> date_naissance]

\* one row of the "Immeubles" table of a mutation
LigneImmeuble(numero, droits, commune, designation, lots) ==
    [beneficiaire_numero |-> numero, droits |-> droits, commune |-> commune,
     designation_cadastrale |-> designation, lots |-> lots]

\* what immeubles_mut.get(...) reads from the empty dict
ImmeublesVide ==
    [droits |-> <<>>, commune |-> <<>>, designation_cadastrale |-> <<>>,
     lots |-> <<>>, lignes_detaillees |-> <<>>]

\* mutations["immeubles"] as extraire_mutations builds it from the matched rows
ImmeublesDeLignes(lignes) ==
    IF lignes = <<>> THEN ImmeublesVide
    ELSE [droits |-> lignes[1].droits,
          commune |-> lignes[1].commune,
          designation_cadastrale |-> lignes[1].designation_cadastrale,
          lots |-> Dedup(Concat([k \in 1..Len(lignes) |-> lignes[k].lots])),
          lignes_detaillees |-> lignes]

\* a record of analyser_mutations
Mutation(numero_ordre, date_depot, disposants, beneficiaires, lignes) ==
    [numero_ordre |-> numero_ordre, date_depot |-> date_depot,
     disposant_donateur |-> disposants,
     beneficiaire_donataire |-> beneficiaires,
     immeubles |-> ImmeublesDeLignes(lignes)]

\* a row of the last page's table; lot is a str or a list of str
Immeuble(code, commune, designation, est_liste, lot) ==
    [code |-> code, commune |-> commune, designation_cadastrale |-> designation,
     lot |-> [est_liste |-> est_liste, valeur |-> lot]]

(***************************************************************************)
(* reconstituer_propriete: the pure parts.                                 *)
(***************************************************************************)
\* lots_ref from the reference row alone
LotsImmeuble(immeuble_ref) ==
    IF immeuble_ref.lot.est_liste
    THEN ToSet(immeuble_ref.lot.valeur)
    ELSE IF Strip(immeuble_ref.lot.valeur) # <<>> THEN {immeuble_ref.lot.valeur} ELSE {}

CommuneCorrespond(immeubles_mut, commune_ref) ==
    Contains(Upper(commune_ref), Upper(immeubles_mut.commune))

\* the guard of a backfill loop: commune and designation, or commune alone
GardeLots(immeubles_mut, ref, stricte) ==
    /\ CommuneCorrespond(immeubles_mut, ref.commune)
    /\ stricte => immeubles_mut.designation_cadastrale = ref.designation_cadastrale

\* lots_ref.update(...) over the mutations that pass the guard
LotsDesMutations(muts, ref, stricte) ==
    UNION {ToSet(muts[k].immeubles.lots) :
              k \in {n \in 1..Len(muts) : GardeLots(muts[n].immeubles, ref, stricte)}}

\* variant: the commune-only step adds its lots to those of the strict step
LotsRefEtendu(muts, ref) ==
    IF LotsImmeuble(ref) # {} THEN LotsImmeuble(ref)
    ELSE LotsDesMutations(muts, ref, TRUE) \cup LotsDesMutations(muts, ref, FALSE)

\* lots_ref as it stands when the sort begins
LotsRef(muts, ref) ==
    IF LotsImmeuble(ref) # {} THEN LotsImmeuble(ref)
    ELSE IF LotsDesMutations(muts, ref, TRUE) # {} THEN LotsDesMutations(muts, ref, TRUE)
    ELSE LotsDesMutations(muts, ref, FALSE)

\* a sort key that is the deposit date as it is written
CleTelleQuelle(date_str) == date_str

convertir_date_pour_tri(date_str) ==
    IF Contains(date_str, <<47>>)
    THEN LET parts == Split(date_str, 47)
         IN  IF Len(parts) # 3 THEN DateDefaut
             ELSE parts[3] \o <<45>> \o Zfill2(parts[2]) \o <<45>> \o Zfill2(parts[1])
    ELSE date_str

\* sorted(..., reverse=True) is stable: a record goes after every record whose key
\* is not smaller than its own
InsererTrie(triees, m) ==
    LET cle == convertir_date_pour_tri(m.date_depot)
        p == Cardinality({k \in 1..Len(triees) :
                 ~StrLT(convertir_date_pour_tri(triees[k].date_depot), cle)})
    IN  SubSeq(triees, 1, p) \o <<m>> \o SubSeq(triees, p + 1, Len(triees))

RECURSIVE Trier(_)
Trier(muts) ==
    IF muts = <<>> THEN <<>>
    ELSE InsererTrie(Trier(SubSeq(muts, 1, Len(muts) - 1)), muts[Len(muts)])

\* variant: the designation alone decides
ConcerneImmeubleParDesignation(immeubles_mut, immeuble_ref) ==
    IF immeubles_mut.commune # <<>> /\ immeubles_mut.designation_cadastrale # <<>>
    THEN immeubles_mut.designation_cadastrale = immeuble_ref.designation_cadastrale
    ELSE TRUE

ConcerneImmeuble(immeubles_mut, immeuble_ref) ==
    IF immeubles_mut.commune # <<>> /\ immeubles_mut.designation_cadastrale # <<>>
    THEN /\ CommuneCorrespond(immeubles_mut, immeuble_ref.commune)
         /\ immeubles_mut.designation_cadastrale = immeuble_ref.designation_cadastrale
    ELSE TRUE

\* variant: the whole property as soon as the mutation names no lot
LotsConcernesSansLotsDeMutation(ref_lots, immeubles_mut) ==
    IF ToSet(immeubles_mut.lots) = {}
    THEN {IMMEUBLE_ENTIER}
    ELSE ref_lots \cap ToSet(immeubles_mut.lots)

LotsConcernes(ref_lots, immeubles_mut) ==
    IF ref_lots = {} /\ ToSet(immeubles_mut.lots) = {}
    THEN {IMMEUBLE_ENTIER}
    ELSE ref_lots \cap ToSet(immeubles_mut.lots)

\* variant: every lot of the row
LotsLigneEntiers(lots_concernes, ligne) ==
    IF IMMEUBLE_ENTIER \in lots_concernes
    THEN {IMMEUBLE_ENTIER}
    ELSE ToSet(ligne.lots)

LotsLigneConcernes(lots_concernes, ligne) ==
    IF IMMEUBLE_ENTIER \in lots_concernes
    THEN {IMMEUBLE_ENTIER}
    ELSE lots_concernes \cap ToSet(ligne.lots)

\* variant: the first beneficiary, whatever number the row names
PremierBeneficiaire(beneficiaires, numero) ==
    IF beneficiaires # <<>> THEN 1 ELSE 0

\* index of the first beneficiary whose numero is the one given, 0 when none
BeneficiaireCorrespondant(beneficiaires, numero) ==
    IF \E k \in 1..Len(beneficiaires) : beneficiaires[k].numero = numero
    THEN CHOOSE k \in 1..Len(beneficiaires) :
             /\ beneficiaires[k].numero = numero
             /\ \A n \in 1..(k - 1) : beneficiaires[n].numero # numero
    ELSE 0

Cles(dict) == {dict[k].lot : k \in 1..Len(dict)}

\* Attribuer without its guard: the dict assignment replaces the value of a key
\* already present
AttribuerSansGarde(dict, lot, beneficiaire, droits, mutation) ==
    LET info == [lot |-> lot,
                 proprietaire |-> beneficiaire,
                 droits |-> droits,
                 date_acquisition |-> mutation.date_depot,
                 numero_ordre_mutation |-> mutation.numero_ordre]
    IN  IF lot \notin Cles(dict)
        THEN Append(dict, info)
        ELSE [k \in 1..Len(dict) |-> IF dict[k].lot = lot THEN info ELSE dict[k]]

\* propriete_lots[lot] = {...} guarded by "lot not in propriete_lots"
Attribuer(dict, lot, beneficiaire, droits, mutation) ==
    IF lot \notin Cles(dict)
    THEN Append(dict, [lot |-> lot,
                       proprietaire |-> beneficiaire,
                       droits |-> droits,
                       date_acquisition |-> mutation.date_depot,
                       numero_ordre_mutation |-> mutation.numero_ordre])
    ELSE dict

\* for lot in <set>: ... visited in the order given
RECURSIVE AttribuerLots(_, _, _, _, _)
AttribuerLots(dict, ordre, beneficiaire, droits, mutation) ==
    IF ordre = <<>> THEN dict
    ELSE AttribuerLots(Attribuer(dict, ordre[1], beneficiaire, droits, mutation),
                       Tail(ordre), beneficiaire, droits, mutation)

\* ToutAttribue without the whole-property branch
ToutAttribueLotsSeuls(ref_lots, dict) ==
    ref_lots # {} /\ Cles(dict) = ref_lots

\* variant: the loop ends as soon as something is assigned
ToutAttribueDesLePremier(ref_lots, dict) ==
    dict # <<>>

\* the test that ends the loop over the sorted mutations
ToutAttribue(ref_lots, dict) ==
    \/ ref_lots # {} /\ Cles(dict) = ref_lots
    \/ ref_lots = {} /\ IMMEUBLE_ENTIER \in Cles(dict)

\* variant: the key also holds the lot
ProprietaireCleParLot(info) ==
    info.proprietaire.designation \o <<95>> \o info.proprietaire.date_naissance \o <<95>> \o info.lot

\* prop_key
ProprietaireCle(info) == info.proprietaire.designation \o <<95>> \o info.proprietaire.date_naissance

\* the date kept for a group when one more of its lots is seen
DatePlusRecente(courante, date_acquisition) ==
    IF StrLT(courante, date_acquisition) THEN date_acquisition ELSE courante

\* proprietaires, the dict keyed by prop_key, after the first n entries
RECURSIVE Grouper(_, _)
Grouper(dict, n) ==
    IF n = 0 THEN <<>>
    ELSE LET avant == Grouper(dict, n - 1)
             info == dict[n]
             cle == ProprietaireCle(info)
             existe == \E g \in 1..Len(avant) : avant[g].cle = cle
             groupes == IF existe THEN avant
                        ELSE Append(avant, [cle |-> cle,
                                            proprietaire |-> info.proprietaire,
                                            lots |-> <<>>,
                                            droits |-> info.droits,
                                            date_acquisition_plus_recente |-> info.date_acquisition])
         IN  [g \in 1..Len(groupes) |->
                 IF groupes[g].cle = cle
                 THEN [groupes[g] EXCEPT
                          !.lots = Append(@, info.lot),
                          !.date_acquisition_plus_recente = DatePlusRecente(@, info.date_acquisition)]
                 ELSE groupes[g]]

\* LotsFinaux without sorted(): the lots in the order of their insertion
LotsFinauxNonTries(lots) ==
    IF IMMEUBLE_ENTIER \in ToSet(lots)
    THEN <<ImmeubleEntierLabel>>
    ELSE lots

\* LotsFinaux without the whole-property label
LotsFinauxTries(lots) == SortedSeq(ToSet(lots))

LotsFinaux(lots) ==
    IF IMMEUBLE_ENTIER \in ToSet(lots)
    THEN <<ImmeubleEntierLabel>>
    ELSE SortedSeq(ToSet(lots) \ {IMMEUBLE_ENTIER})

ImmeubleSortie(immeuble_ref) ==
    [commune |-> immeuble_ref.commune,
     designation_cadastrale |-> immeuble_ref.designation_cadastrale,
     code |-> immeuble_ref.code]

\* the records appended for the known owners
ProprietesConnues(dict, immeuble_ref) ==
    LET groupes == Grouper(dict, Len(dict))
    IN  [g \in 1..Len(groupes) |->
            [immeuble |-> ImmeubleSortie(immeuble_ref),
             proprietaire |-> groupes[g].proprietaire,
             lots |-> LotsFinaux(groupes[g].lots),
             droits |-> groupes[g].droits,
             date_acquisition |-> groupes[g].date_acquisition_plus_recente]]

\* LotsNonAttribues computed only when something was assigned
LotsNonAttribuesSiAttribution(ref_lots, dict) ==
    IF dict = <<>> THEN {} ELSE ref_lots \ Cles(dict)

\* variant: the keys of the map are not taken away
LotsNonAttribuesSansRetrait(ref_lots, dict) ==
    IF Cles(dict) = ref_lots THEN {} ELSE ref_lots

LotsNonAttribues(ref_lots, dict) == ref_lots \ Cles(dict)

\* the record appended for the lots no mutation gave to anybody
ProprieteInconnue(ref_lots, dict, immeuble_ref) ==
    IF LotsNonAttribues(ref_lots, dict) # {}
    THEN << [immeuble |-> ImmeubleSortie(immeuble_ref),
             proprietaire |-> Personne(<<>>, PROPRIETAIRE_INCONNU, <<>>),
             lots |-> SortedSeq(LotsNonAttribues(ref_lots, dict)),
             droits |-> INCONNU,
             date_acquisition |-> <<>>] >>
    ELSE <<>>

(***************************************************************************)
(* State.                                                                  *)
(***************************************************************************)
VARIABLES
    mutations,           \* reconstituer_propriete: the mutations argument
    immeubles,           \* reconstituer_propriete: the immeubles argument
    pc,                  \* position in the function being run
    lots_ref,            \* the reference lot set
    mutations_triees,    \* the mutations, most recent first
    i,                   \* index of the current mutation in mutations_triees
    j,                   \* index of the current row of lignes_detaillees
    propriete_lots,      \* lot -> assignment, in insertion order
    propriete_actuelle,  \* the returned list
    traitees,            \* indices of mutations_triees whose loop body has begun
    full_text,           \* extract_formalites_from_pdf: the text of the document
    sections,            \* the pieces of full_text between the anchors
    i_section,           \* enumerate(sections): the index of the current piece
    formalites,          \* the list of formalities
    i_formalite,         \* analyser_hypotheques_actives: formalities classified so far
    hypotheques,         \* the formalities classified as mortgages
    radiations,          \* the formalities classified as cancellations
    i_hypotheque,        \* the mortgages resolved so far
    i_analyse,           \* analyser_mutations: formalities looked at so far
    hypotheques_actives, \* the returned list
    nature_acte,         \* classifier_type_acte: the argument
    type_acte,           \* classifier_type_acte: the value returned
    i_comptage,          \* the act-type count: formalities counted so far
    comptage_types,      \* label -> count, in insertion order
    comptage_trie,       \* comptage_types sorted by count
    uploads_ehf,         \* the staging folder: file name -> file, 0 when there is none
    fichiers,            \* the files of the file system: the bytes each one holds
    file,                \* analyze_ehf: the upload of each request
    etape,               \* analyze_ehf: the position of each request
    descripteur,         \* analyze_ehf: f, the file each request has opened, 0 when none
    lu,                  \* process_ehf_document: what each request found at its path
    reponse,             \* analyze_ehf: how each request ended
    data_row,            \* extract_tableau_derniere_page: a row of the table
    volume,              \* immeuble["volume"]
    volume_parts,        \* the non-blank lines of the volume cell
    i_volume_part,       \* index of the current element of volume_parts
    processed_volumes    \* the volumes gathered so far

varsReconstitution == <<mutations, immeubles, lots_ref, mutations_triees, i, j,
                        propriete_lots, propriete_actuelle, traitees>>

varsFormalites == <<full_text, sections, i_section, formalites>>

varsHypotheques == <<i_formalite, hypotheques, radiations, i_hypotheque, i_analyse,
                     hypotheques_actives>>

varsActes == <<nature_acte, type_acte, i_comptage, comptage_types, comptage_trie>>

varsRequetes == <<uploads_ehf, fichiers, file, etape, descripteur, lu, reponse>>

varsTableau == <<data_row, volume, volume_parts, i_volume_part, processed_volumes>>

vars == <<pc, varsReconstitution, varsFormalites, varsHypotheques, varsActes, varsRequetes,
          varsTableau>>

\* what each function leaves alone
horsReconstitution == <<varsFormalites, varsHypotheques, varsActes, varsRequetes,
    varsTableau>>
horsFormalites == <<varsReconstitution, varsHypotheques, varsActes, varsRequetes,
    varsTableau>>
horsHypotheques == <<varsReconstitution, varsFormalites, varsActes, varsRequetes,
    varsTableau>>
horsActes == <<varsReconstitution, varsFormalites, varsHypotheques, varsRequetes,
    varsTableau>>
horsRequetes == <<varsReconstitution, varsFormalites, varsHypotheques, varsActes,
    varsTableau>>
horsTableau == <<varsReconstitution, varsFormalites, varsHypotheques, varsActes,
    varsRequetes>>

\* the variables of the functions that are not running
ReposReconstitution ==
    /\ mutations = <<>>
    /\ immeubles = <<>>
    /\ lots_ref = {}
    /\ mutations_triees = <<>>
    /\ i = 0
    /\ j = 0
    /\ propriete_lots = <<>>
    /\ propriete_actuelle = <<>>
    /\ traitees = <<>>

ReposFormalites ==
    /\ full_text = <<>>
    /\ sections = <<>>
    /\ i_section = 0

ReposHypotheques ==
    /\ i_formalite = 0
    /\ hypotheques = <<>>
    /\ radiations = <<>>
    /\ i_hypotheque = 0
    /\ i_analyse = 0
    /\ hypotheques_actives = <<>>

ReposActes ==
    /\ nature_acte = <<>>
    /\ type_acte = <<>>
    /\ i_comptage = 0
    /\ comptage_types = <<>>
    /\ comptage_trie = <<>>

ReposRequetes ==
    /\ uploads_ehf = <<>>
    /\ fichiers = <<>>
    /\ file = <<>>
    /\ etape = <<>>
    /\ descripteur = <<>>
    /\ lu = <<>>
    /\ reponse = <<>>

ReposTableau ==
    /\ data_row = <<>>
    /\ volume = <<>>
    /\ volume_parts = <<>>
    /\ i_volume_part = 0
    /\ processed_volumes = <<>>

(***************************************************************************)
(* Inputs of reconstituer_propriete, in the shapes analyser_mutations and  *)
(* extract_tableau_derniere_page produce.                                  *)
(***************************************************************************)
PX1 == Personne(Num1, NomX, Naiss1)
PY2 == Personne(Num2, NomY, Naiss2)
PY1 == Personne(Num1, NomY, Naiss2)
PX2 == Personne(Num2, NomX, Naiss1)

DatesDepot == {DateA, DateB, NonTrouve}

\* <<disposants, beneficiaires, rows of the Immeubles table>>
FormesMutation ==
    { <<<<PY1>>, <<>>, <<>>>>,
      <<<<>>, <<PX1>>, <<>>>>,
      <<<<>>, <<PX1, PY2>>, <<LigneImmeuble(Num1, US, PARIS, CJ42, <<Lot9>>)>>>>,
      <<<<>>, <<PX1, PY2>>, <<LigneImmeuble(Num2, NI, PARIS, CJ42, <<Lot9, Lot17>>)>>>>,
      <<<<>>, <<PX1, PY2>>, <<LigneImmeuble(Num1, US, PARIS, CJ42, <<Lot9>>),
                              LigneImmeuble(Num2, NI, PARIS, CJ42, <<Lot9, Lot17>>)>>>>,
      <<<<>>, <<PX1>>, <<LigneImmeuble(Num1, NI, PARIS, CJ42, <<Lot17>>)>>>>,
      <<<<>>, <<PX1, PY2>>, <<LigneImmeuble(Num2, US, PARIS, CJ42, <<>>),
                              LigneImmeuble(Num1, NI, PARIS, CJ42, <<>>)>>>>,
      <<<<PX2>>, <<PY1>>, <<LigneImmeuble(Num2, US, PARIS, CJ42, <<Lot9>>)>>>>,
      <<<<>>, <<PY1>>, <<LigneImmeuble(Num1, US, LYON, CJ42, <<Lot9>>)>>>>,
      <<<<>>, <<PY1>>, <<LigneImmeuble(Num1, NI, PARIS, AB7, <<Lot17>>)>>>> }

\* the lists of at most MaxMutations mutations; numero_ordre follows the document order
ListesMutations ==
    { [k \in 1..Len(c) |-> Mutation(k, c[k][1], c[k][2][1], c[k][2][2], c[k][2][3])] :
        c \in UNION {[1..n -> DatesDepot \X FormesMutation] : n \in 0..MaxMutations} }

ListesImmeubles ==
    { <<>>,
      <<Immeuble(Code75, CommuneRef, CJ42, FALSE, <<>>)>>,
      <<Immeuble(Code75, CommuneRef, CJ42, FALSE, Lot9)>>,
      <<Immeuble(Code75, CommuneRef, CJ42, TRUE, <<Lot9, Lot17>>)>> }

Init ==
    /\ mutations \in ListesMutations
    /\ immeubles \in ListesImmeubles
    /\ pc = "debut"
    /\ lots_ref = {}
    /\ mutations_triees = <<>>
    /\ i = 0
    /\ j = 0
    /\ propriete_lots = <<>>
    /\ propriete_actuelle = <<>>
    /\ traitees = <<>>
    /\ full_text = <<>>
    /\ sections = <<>>
    /\ i_section = 0
    /\ formalites = <<>>
    /\ i_formalite = 0
    /\ hypotheques = <<>>
    /\ radiations = <<>>
    /\ i_hypotheque = 0
    /\ i_analyse = 0
    /\ hypotheques_actives = <<>>
    /\ ReposActes
    /\ ReposRequetes
    /\ ReposTableau

(***************************************************************************)
(* reconstituer_propriete, step by step.                                   *)
(***************************************************************************)
immeuble_ref == immeubles[1]
mutation == mutations_triees[i]
immeubles_mut == mutation.immeubles
lots_concernes == LotsConcernes(lots_ref, immeubles_mut)

\* "if not mutations or not immeubles: return []"
RetourVide ==
    /\ pc = "debut"
    /\ mutations = <<>> \/ immeubles = <<>>
    /\ propriete_actuelle' = <<>>
    /\ pc' = "fin"
    /\ UNCHANGED <<mutations, immeubles, lots_ref, mutations_triees, i, j,
                   propriete_lots, traitees>>
    /\ UNCHANGED horsReconstitution

\* variant: the list of the caller is sorted in place
PreparerTriEnPlace ==
    /\ pc = "debut"
    /\ mutations # <<>> /\ immeubles # <<>>
    /\ lots_ref' = LotsRef(mutations, immeuble_ref)
    /\ mutations' = Trier(mutations)
    /\ mutations_triees' = Trier(mutations)
    /\ i' = 1
    /\ pc' = "mutation"
    /\ UNCHANGED <<immeubles, j, propriete_lots, propriete_actuelle, traitees>>
    /\ UNCHANGED horsReconstitution

\* the reference lot set and the sort
Preparer ==
    /\ pc = "debut"
    /\ mutations # <<>> /\ immeubles # <<>>
    /\ lots_ref' = LotsRef(mutations, immeuble_ref)
    /\ mutations_triees' = Trier(mutations)
    /\ i' = 1
    /\ pc' = "mutation"
    /\ UNCHANGED <<mutations, immeubles, j, propriete_lots, propriete_actuelle, traitees>>
    /\ UNCHANGED horsReconstitution

\* a mutation that assigns nothing: another property, no lot of the reference,
\* or no beneficiary
MutationSansEffet ==
    /\ pc = "mutation"
    /\ \/ ~ConcerneImmeuble(immeubles_mut, immeuble_ref)
       \/ lots_concernes = {}
       \/ mutation.beneficiaire_donataire = <<>>
    /\ traitees' = Append(traitees, i)
    /\ pc' = "verifier"
    /\ UNCHANGED <<mutations, immeubles, lots_ref, mutations_triees, i, j,
                   propriete_lots, propriete_actuelle>>
    /\ UNCHANGED horsReconstitution

\* "if beneficiaires and lignes_detaillees": enter the loop over the rows
MutationLignes ==
    /\ pc = "mutation"
    /\ ConcerneImmeuble(immeubles_mut, immeuble_ref)
    /\ lots_concernes # {}
    /\ mutation.beneficiaire_donataire # <<>>
    /\ immeubles_mut.lignes_detaillees # <<>>
    /\ traitees' = Append(traitees, i)
    /\ j' = 1
    /\ pc' = "ligne"
    /\ UNCHANGED <<mutations, immeubles, lots_ref, mutations_triees, i,
                   propriete_lots, propriete_actuelle>>
    /\ UNCHANGED horsReconstitution

\* "elif beneficiaires": the first beneficiary takes every lot concerned
MutationSimple ==
    /\ pc = "mutation"
    /\ ConcerneImmeuble(immeubles_mut, immeuble_ref)
    /\ lots_concernes # {}
    /\ mutation.beneficiaire_donataire # <<>>
    /\ immeubles_mut.lignes_detaillees = <<>>
    /\ \E ordre \in Ordres(lots_concernes) :
           propriete_lots' = AttribuerLots(propriete_lots, ordre,
                                 mutation.beneficiaire_donataire[1],
                                 immeubles_mut.droits, mutation)
    /\ traitees' = Append(traitees, i)
    /\ pc' = "verifier"
    /\ UNCHANGED <<mutations, immeubles, lots_ref, mutations_triees, i, j,
                   propriete_actuelle>>
    /\ UNCHANGED horsReconstitution

\* one row of lignes_detaillees
Ligne ==
    /\ pc = "ligne"
    /\ LET ligne_immeuble == immeubles_mut.lignes_detaillees[j]
           lots_ligne_concernes == LotsLigneConcernes(lots_concernes, ligne_immeuble)
           b == BeneficiaireCorrespondant(mutation.beneficiaire_donataire,
                                          ligne_immeuble.beneficiaire_numero)
       IN  IF lots_ligne_concernes # {} /\ b # 0
           THEN \E ordre \in Ordres(lots_ligne_concernes) :
                    propriete_lots' = AttribuerLots(propriete_lots, ordre,
                                          mutation.beneficiaire_donataire[b],
                                          ligne_immeuble.droits, mutation)
           ELSE propriete_lots' = propriete_lots
    /\ IF j < Len(immeubles_mut.lignes_detaillees)
       THEN j' = j + 1 /\ pc' = "ligne"
       ELSE j' = j /\ pc' = "verifier"
    /\ UNCHANGED <<mutations, immeubles, lots_ref, mutations_triees, i,
                   propriete_actuelle, traitees>>
    /\ UNCHANGED horsReconstitution

\* "break": everything is assigned
Arret ==
    /\ pc = "verifier"
    /\ ToutAttribue(lots_ref, propriete_lots)
    /\ pc' = "construire"
    /\ UNCHANGED <<mutations, immeubles, lots_ref, mutations_triees, i, j,
                   propriete_lots, propriete_actuelle, traitees>>
    /\ UNCHANGED horsReconstitution

\* next mutation of the sorted list
Suivante ==
    /\ pc = "verifier"
    /\ ~ToutAttribue(lots_ref, propriete_lots)
    /\ i < Len(mutations_triees)
    /\ i' = i + 1
    /\ pc' = "mutation"
    /\ UNCHANGED <<mutations, immeubles, lots_ref, mutations_triees, j,
                   propriete_lots, propriete_actuelle, traitees>>
    /\ UNCHANGED horsReconstitution

\* the sorted list is exhausted
FinBoucle ==
    /\ pc = "verifier"
    /\ ~ToutAttribue(lots_ref, propriete_lots)
    /\ i = Len(mutations_triees)
    /\ pc' = "construire"
    /\ UNCHANGED <<mutations, immeubles, lots_ref, mutations_triees, i, j,
                   propriete_lots, propriete_actuelle, traitees>>
    /\ UNCHANGED horsReconstitution

\* grouping by owner, then the record of the lots nobody received
Construire ==
    /\ pc = "construire"
    /\ propriete_actuelle' = ProprietesConnues(propriete_lots, immeuble_ref)
                                 \o ProprieteInconnue(lots_ref, propriete_lots, immeuble_ref)
    /\ pc' = "fin"
    /\ UNCHANGED <<mutations, immeubles, lots_ref, mutations_triees, i, j,
                   propriete_lots, traitees>>
    /\ UNCHANGED horsReconstitution

Next ==
    \/ RetourVide
    \/ Preparer
    \/ MutationSansEffet
    \/ MutationLignes
    \/ MutationSimple
    \/ Ligne
    \/ Arret
    \/ Suivante
    \/ FinBoucle
    \/ Construire

Spec == Init /\ [][Next]_vars

(***************************************************************************)
(* Vocabulary of the properties of reconstituer_propriete.                 *)
(***************************************************************************)
EstChiffre(c) == c >= 48 /\ c <= 57

\* a DD/MM/YYYY string
EstDate(s) ==
    /\ Len(s) = 10
    /\ s[3] = 47 /\ s[6] = 47
    /\ \A k \in {1, 2, 4, 5, 7, 8, 9, 10} : EstChiffre(s[k])

RECURSIVE Nombre(_)
Nombre(s) == IF s = <<>> THEN 0 ELSE 10 * Nombre(SubSeq(s, 1, Len(s) - 1)) + (s[Len(s)] - 48)

\* the calendar position of a DD/MM/YYYY string: year, then month, then day; a
\* string that is no date is older than every date
Chrono(s) ==
    IF EstDate(s)
    THEN 10000 * Nombre(SubSeq(s, 7, 10)) + 100 * Nombre(SubSeq(s, 4, 5)) + Nombre(SubSeq(s, 1, 2))
    ELSE 0 - 1

\* owner identity: designation together with birthdate/id
MemeProprietaire(p, q) ==
    p.designation = q.designation /\ p.date_naissance = q.date_naissance

\* the beneficiaries a mutation names for a lot of the reference
Nomme(m, ref_lots, ref, lot) ==
    IF \/ ~ConcerneImmeuble(m.immeubles, ref)
       \/ lot \notin LotsConcernes(ref_lots, m.immeubles)
       \/ m.beneficiaire_donataire = <<>>
    THEN {}
    ELSE IF m.immeubles.lignes_detaillees = <<>>
    THEN {m.beneficiaire_donataire[1]}
    ELSE { m.beneficiaire_donataire[
               BeneficiaireCorrespondant(m.beneficiaire_donataire,
                   m.immeubles.lignes_detaillees[k].beneficiaire_numero)] :
             k \in { n \in 1..Len(m.immeubles.lignes_detaillees) :
                       /\ lot \in LotsLigneConcernes(LotsConcernes(ref_lots, m.immeubles),
                                                     m.immeubles.lignes_detaillees[n])
                       /\ BeneficiaireCorrespondant(m.beneficiaire_donataire,
                              m.immeubles.lignes_detaillees[n].beneficiaire_numero) # 0 } }

\* the run went through the loop and has returned
Termine == pc = "fin" /\ mutations # <<>> /\ immeubles # <<>>

ToutesDatees == \A k \in 1..Len(mutations) : EstDate(mutations[k].date_depot)

\* the returned records of known owners
Connus == {r \in ToSet(propriete_actuelle) : r.proprietaire.designation # PROPRIETAIRE_INCONNU}

\* the assignments grouped under the owner of a returned record
Groupe(r) == {e \in ToSet(propriete_lots) : MemeProprietaire(e.proprietaire, r.proprietaire)}

\* the lot belongs, in the result, to a beneficiary that one of the most recent
\* mutations naming it names for it
AuPlusRecent(lot) ==
    LET cand == {k \in 1..Len(mutations) : Nomme(mutations[k], lots_ref, immeubles[1], lot) # {}}
        recents == {k \in cand : \A k2 \in cand :
                        Chrono(mutations[k2].date_depot) <= Chrono(mutations[k].date_depot)}
    IN  cand # {} =>
            \E r \in ToSet(propriete_actuelle), k \in recents :
                /\ lot \in ToSet(r.lots)
                /\ \E b \in Nomme(mutations[k], lots_ref, immeubles[1], lot) :
                       MemeProprietaire(r.proprietaire, b)

(***************************************************************************)
(* C1.  Every lot of a reference property that has lots goes to the        *)
(* beneficiary named by the most recent mutation, by calendar date of      *)
(* deposit, among the relevant mutations that assign the lot; an older     *)
(* mutation naming the same lot never determines its owner.                *)
(***************************************************************************)
PlusRecenteGagne ==
    (Termine /\ LotsImmeuble(immeubles[1]) # {}) =>
        \A lot \in lots_ref : AuPlusRecent(lot)

\* the same when every mutation carries a deposit date
PlusRecenteGagneDatees ==
    (Termine /\ LotsImmeuble(immeubles[1]) # {} /\ ToutesDatees) =>
        \A lot \in lots_ref : AuPlusRecent(lot)

\* a lot named by two mutations of different dates went to the later one's beneficiary
PlusRecenteGagneTemoin ==
    /\ Termine /\ ToutesDatees /\ Len(mutations) = 2
    /\ mutations[1].date_depot # mutations[2].date_depot
    /\ Nomme(mutations[1], lots_ref, immeubles[1], Lot9) # {}
    /\ Nomme(mutations[2], lots_ref, immeubles[1], Lot9) # {}
    /\ Nomme(mutations[1], lots_ref, immeubles[1], Lot9)
           \cap Nomme(mutations[2], lots_ref, immeubles[1], Lot9) = {}

(***************************************************************************)
(* C2.  The lot -> assignment map is write-once: a key has one assignment, *)
(* and no later row or later mutation changes the owner, the droits or the *)
(* date_acquisition of a key that has one.                                 *)
(***************************************************************************)
EcritureUnique ==
    [][ /\ \A k \in 1..Len(propriete_lots) :
               Len(propriete_lots') >= k /\ propriete_lots'[k] = propriete_lots[k]
        /\ \A a, b \in 1..Len(propriete_lots') :
               propriete_lots'[a].lot = propriete_lots'[b].lot => a = b ]_vars

\* a mutation processed after the one that assigned a lot names the lot for
\* somebody else
EcritureUniqueTemoin ==
    /\ pc = "verifier"
    /\ \E e \in ToSet(propriete_lots) :
           /\ e.numero_ordre_mutation # mutation.numero_ordre
           /\ Nomme(mutation, lots_ref, immeuble_ref, e.lot) # {}
           /\ \A b \in Nomme(mutation, lots_ref, immeuble_ref, e.lot) :
                  ~MemeProprietaire(b, e.proprietaire)

(***************************************************************************)
(* C3.  The loop stops as soon as, after a mutation, everything is         *)
(* assigned: the assigned lots are the reference lots or, when there are   *)
(* none, the whole-property sentinel is assigned.  No later mutation of    *)
(* the sorted order is processed.                                          *)
(***************************************************************************)
Complet ==
    IF lots_ref # {}
    THEN {propriete_lots[k].lot : k \in 1..Len(propriete_lots)} = lots_ref
    ELSE \E k \in 1..Len(propriete_lots) : propriete_lots[k].lot = IMMEUBLE_ENTIER

ArretDesQueComplet ==
    /\ traitees = [k \in 1..Len(traitees) |-> k]
    /\ pc = "mutation" => ~Complet

\* the loop was left with a mutation of the sorted list still unprocessed
ArretDesQueCompletTemoin ==
    /\ pc = "fin" /\ Complet
    /\ Len(traitees) < Len(mutations_triees)

(***************************************************************************)
(* C7.  Every reference lot that no mutation assigned is returned in a     *)
(* separate record whose owner is the unknown-owner sentinel and whose     *)
(* droits is the unknown marker.                                           *)
(***************************************************************************)
\* the reference lot set of the inputs, and its lots left without assignment
LotsReference == LotsRef(mutations, immeubles[1])
Orphelins == LotsReference \ {propriete_lots[k].lot : k \in 1..Len(propriete_lots)}

\* one record, of the unknown owner, holds exactly the unassigned lots, and no
\* record of a known owner holds any of them
OrphelinsAInconnu ==
    Orphelins # {} =>
        /\ \E n \in 1..Len(propriete_actuelle) :
               /\ propriete_actuelle[n].proprietaire.designation = PROPRIETAIRE_INCONNU
               /\ propriete_actuelle[n].droits = INCONNU
               /\ ToSet(propriete_actuelle[n].lots) = Orphelins
               /\ \A n2 \in 1..Len(propriete_actuelle) :
                      n2 # n => ToSet(propriete_actuelle[n2].lots) \cap Orphelins = {}

\* as claimed: for every mutation list, the empty list included
LotsNonAttribuesAInconnuToujours ==
    (pc = "fin" /\ immeubles # <<>>) => OrphelinsAInconnu

\* as amended: for every non-empty mutation list
LotsNonAttribuesAInconnu ==
    (pc = "fin" /\ immeubles # <<>> /\ mutations # <<>>) => OrphelinsAInconnu

\* some reference lots were assigned and some were not
LotsNonAttribuesAInconnuTemoin ==
    /\ Termine
    /\ Orphelins # {}
    /\ propriete_lots # <<>>

(***************************************************************************)
(* C8.  When neither the reference property nor any mutation carries lots, *)
(* at most one record is returned, its lots is the whole-property label,   *)
(* and no record is returned when no mutation is relevant.                 *)
(***************************************************************************)
SansLots ==
    /\ immeubles # <<>>
    /\ LotsImmeuble(immeubles[1]) = {}
    /\ \A k \in 1..Len(mutations) : mutations[k].immeubles.lots = <<>>

ImmeubleEntierSeul ==
    (pc = "fin" /\ SansLots) =>
        /\ Len(propriete_actuelle) <= 1
        /\ \A n \in 1..Len(propriete_actuelle) :
               propriete_actuelle[n].lots = <<ImmeubleEntierLabel>>
        /\ (\A k \in 1..Len(mutations) :
                ~ConcerneImmeuble(mutations[k].immeubles, immeubles[1]))
               => propriete_actuelle = <<>>

\* two mutations without lots, both naming a beneficiary, gave one record
ImmeubleEntierSeulTemoin ==
    /\ pc = "fin" /\ SansLots
    /\ Len(mutations) = 2
    /\ \A k \in 1..2 : Nomme(mutations[k], {}, immeubles[1], IMMEUBLE_ENTIER) # {}
    /\ Len(propriete_actuelle) = 1

(***************************************************************************)
(* C9.  The date_acquisition of a returned record is the latest, as        *)
(* calendar dates, of the acquisition dates of the assignments grouped     *)
(* under its owner.                                                        *)
(***************************************************************************)
DateAcquisitionLaPlusTardive ==
    Termine =>
        \A r \in Connus :
            (\A e \in Groupe(r) : EstDate(e.date_acquisition)) =>
                /\ \E e \in Groupe(r) : e.date_acquisition = r.date_acquisition
                /\ \A e \in Groupe(r) : Chrono(e.date_acquisition) <= Chrono(r.date_acquisition)

(***************************************************************************)
(* C10.  The droits of a returned record is the droits of the assignment   *)
(* of most recent acquisition date among those grouped under its owner.    *)
(***************************************************************************)
DroitsDuPlusRecent(r) ==
    \E e \in Groupe(r) :
        /\ e.droits = r.droits
        /\ \A e2 \in Groupe(r) : Chrono(e2.date_acquisition) <= Chrono(e.date_acquisition)

DroitsPlusRecents ==
    Termine => \A r \in Connus : DroitsDuPlusRecent(r)

\* the same when every mutation carries a deposit date
DroitsPlusRecentsDatees ==
    (Termine /\ ToutesDatees) => \A r \in Connus : DroitsDuPlusRecent(r)

\* the lots a group of assignments is rendered with
LotsDuGroupe(g) ==
    IF \E e \in g : e.lot = IMMEUBLE_ENTIER
    THEN {ImmeubleEntierLabel}
    ELSE {e.lot : e \in g}

\* the positions, in the returned list, of the records of known owners
PositionsConnues ==
    {k \in 1..Len(propriete_actuelle) :
        propriete_actuelle[k].proprietaire.designation # PROPRIETAIRE_INCONNU}

\* C11: when reconstituer_propriete has returned, two records of known owners
\* never share designation and birthdate/id; every owner identity that
\* received an assignment has exactly one record; and the lots of a record of
\* a known owner are, without repetition, the lots assigned to that identity.
UnParProprietaire ==
    pc = "fin" =>
        /\ \A k, n \in PositionsConnues :
            MemeProprietaire(propriete_actuelle[k].proprietaire,
                             propriete_actuelle[n].proprietaire) => k = n
        /\ \A e \in ToSet(propriete_lots) :
            Cardinality({k \in PositionsConnues :
                MemeProprietaire(propriete_actuelle[k].proprietaire, e.proprietaire)}) = 1
        /\ \A k \in PositionsConnues :
            /\ Groupe(propriete_actuelle[k]) # {}
            /\ ToSet(propriete_actuelle[k].lots) = LotsDuGroupe(Groupe(propriete_actuelle[k]))
            /\ Len(propriete_actuelle[k].lots) = Cardinality(ToSet(propriete_actuelle[k].lots))

\* C11 witness: one record holds two lots that two different mutations gave
\* to the same owner
UnParProprietaireTemoin ==
    /\ pc = "fin"
    /\ \E k \in PositionsConnues :
        /\ Len(propriete_actuelle[k].lots) = 2
        /\ \E e, f \in Groupe(propriete_actuelle[k]) :
            e.numero_ordre_mutation # f.numero_ordre_mutation

(***************************************************************************)
(* reconstituer_propriete run with every set of lots visited in sorted     *)
(* order: one of the orders the interpreter may take.                      *)
(***************************************************************************)
\* the loop over lignes_detaillees, from row k on
RECURSIVE LignesOrdreTrie(_, _, _, _)
LignesOrdreTrie(m, k, dict, concernes) ==
    IF k > Len(m.immeubles.lignes_detaillees) THEN dict
    ELSE LET ligne_immeuble == m.immeubles.lignes_detaillees[k]
             lots_ligne_concernes == LotsLigneConcernes(concernes, ligne_immeuble)
             b == BeneficiaireCorrespondant(m.beneficiaire_donataire,
                                            ligne_immeuble.beneficiaire_numero)
         IN  LignesOrdreTrie(m, k + 1,
                 IF lots_ligne_concernes # {} /\ b # 0
                 THEN AttribuerLots(dict, SortedSeq(lots_ligne_concernes),
                                    m.beneficiaire_donataire[b], ligne_immeuble.droits, m)
                 ELSE dict,
                 concernes)

\* the body of the loop over mutations_triees, up to the completeness test
MutationOrdreTrie(m, dict, ref_lots, ref) ==
    LET concernes == LotsConcernes(ref_lots, m.immeubles)
    IN  IF \/ ~ConcerneImmeuble(m.immeubles, ref)
           \/ concernes = {}
           \/ m.beneficiaire_donataire = <<>>
        THEN dict
        ELSE IF m.immeubles.lignes_detaillees # <<>>
        THEN LignesOrdreTrie(m, 1, dict, concernes)
        ELSE AttribuerLots(dict, SortedSeq(concernes), m.beneficiaire_donataire[1],
                           m.immeubles.droits, m)

\* the loop over mutations_triees, from mutation k on, with its break
RECURSIVE BoucleOrdreTrie(_, _, _, _, _)
BoucleOrdreTrie(triees, k, dict, ref_lots, ref) ==
    IF k > Len(triees) THEN dict
    ELSE LET apres == MutationOrdreTrie(triees[k], dict, ref_lots, ref)
         IN  IF ToutAttribue(ref_lots, apres) THEN apres
             ELSE BoucleOrdreTrie(triees, k + 1, apres, ref_lots, ref)

\* the list returned
ReconstituerOrdreTrie(muts, imms) ==
    IF muts = <<>> \/ imms = <<>> THEN <<>>
    ELSE LET ref == imms[1]
             ref_lots == LotsRef(muts, ref)
             dict == BoucleOrdreTrie(Trier(muts), 1, <<>>, ref_lots, ref)
         IN  ProprietesConnues(dict, ref) \o ProprieteInconnue(ref_lots, dict, ref)

\* C12: whatever the order in which the sets of lots were visited, the list
\* reconstituer_propriete returns is, record for record and in the same
\* order, the one the run that visits them in sorted order returns: the
\* output is a function of the mutations and of the reference property.
SortieIndependanteDeLOrdre ==
    pc = "fin" => propriete_actuelle = ReconstituerOrdreTrie(mutations, immeubles)

\* C12 witness: a run that gave lot 17 before lot 9 in one visit of a set has
\* returned
SortieIndependanteDeLOrdreTemoin ==
    /\ pc = "fin"
    /\ \E k \in 1..(Len(propriete_lots) - 1) :
        /\ propriete_lots[k].lot = Lot17
        /\ propriete_lots[k + 1].lot = Lot9
        /\ propriete_lots[k].numero_ordre_mutation = propriete_lots[k + 1].numero_ordre_mutation
        /\ propriete_lots[k].proprietaire = propriete_lots[k + 1].proprietaire

(***************************************************************************)
(* The order in which the loop takes the mutations.                        *)
(***************************************************************************)
\* the sort has been made
Triees == pc \notin {"debut"} /\ mutations # <<>> /\ immeubles # <<>>

\* the loop takes the mutations in the order of mutations_triees: the k-th
\* body to begin is the one of the k-th mutation of the list
TraiteesEnTete == \A k \in 1..Len(traitees) : traitees[k] = k

\* C18: in the order in which the loop takes them, a mutation whose date_depot
\* is no DD/MM/YYYY date, the not-found sentinel in particular, comes after
\* every mutation whose date_depot is one
NonDateesEnDernier ==
    Triees =>
        /\ TraiteesEnTete
        /\ \A a, b \in 1..Len(mutations_triees) :
            (a < b /\ EstDate(mutations_triees[b].date_depot))
                => EstDate(mutations_triees[a].date_depot)

\* C19: whatever the order of the list given, the loop takes the mutations
\* that carry a DD/MM/YYYY date_depot from the latest to the earliest by year,
\* then month, then day
DateesParChronologie ==
    Triees =>
        /\ TraiteesEnTete
        /\ \A a, b \in 1..Len(mutations_triees) :
            (/\ a < b
             /\ EstDate(mutations_triees[a].date_depot)
             /\ EstDate(mutations_triees[b].date_depot))
                => Chrono(mutations_triees[a].date_depot)
                       >= Chrono(mutations_triees[b].date_depot)

\* C19 witness: the list gave '31/01/2010' before '01/02/2011', which is also
\* the descending order of the two strings, and the loop has taken the
\* mutation of 2011 and then the one of 2010
DateesParChronologieTemoin ==
    /\ Triees
    /\ Len(mutations) = 2
    /\ mutations[1].date_depot = DateA /\ mutations[2].date_depot = DateB
    /\ StrLT(DateB, DateA)
    /\ mutations_triees[1].date_depot = DateB /\ mutations_triees[2].date_depot = DateA
    /\ traitees = <<1, 2>>

(***************************************************************************)
(* The reference lot set.                                                  *)
(***************************************************************************)
\* the commune of the mutation is found, capitals and small letters alike,
\* somewhere in the commune of the reference
CommuneDansReference(m, ref) ==
    \E p \in 0..(Len(ref.commune) - Len(m.immeubles.commune)) :
        \A n \in 1..Len(m.immeubles.commune) :
            UpperChar(ref.commune[p + n]) = UpperChar(m.immeubles.commune[n])

\* the lots the reference row carries: the items of a list, or a scalar that
\* is not blank
LotsPropres(ref) ==
    IF ref.lot.est_liste
    THEN {ref.lot.valeur[k] : k \in 1..Len(ref.lot.valeur)}
    ELSE IF \E k \in 1..Len(ref.lot.valeur) : ~IsSpace(ref.lot.valeur[k])
         THEN {ref.lot.valeur}
         ELSE {}

\* the lots of the mutations that match on commune and designation
LotsMemeDesignation(muts, ref) ==
    {lot \in UNION {ToSet(muts[k].immeubles.lots) : k \in 1..Len(muts)} :
        \E k \in 1..Len(muts) :
            /\ lot \in ToSet(muts[k].immeubles.lots)
            /\ CommuneDansReference(muts[k], ref)
            /\ muts[k].immeubles.designation_cadastrale = ref.designation_cadastrale}

\* the lots of the mutations that match on commune
LotsMemeCommune(muts, ref) ==
    {lot \in UNION {ToSet(muts[k].immeubles.lots) : k \in 1..Len(muts)} :
        \E k \in 1..Len(muts) :
            /\ lot \in ToSet(muts[k].immeubles.lots)
            /\ CommuneDansReference(muts[k], ref)}

\* C21: the reference lot set the loop works with is the first set that is
\* not empty among the lots of the reference row, the lots of the mutations
\* that match on commune and designation, and the lots of the mutations that
\* match on commune; it is empty when the three are.  It is set once, before
\* the sort, and a set that is not empty is never extended by a later step
PremierEnsembleNonVide ==
    [][/\ (pc = "debut" /\ pc' = "mutation") =>
              LET ref == immeubles[1]
              IN  /\ LotsPropres(ref) # {} => lots_ref' = LotsPropres(ref)
                  /\ (LotsPropres(ref) = {} /\ LotsMemeDesignation(mutations, ref) # {})
                         => lots_ref' = LotsMemeDesignation(mutations, ref)
                  /\ (LotsPropres(ref) = {} /\ LotsMemeDesignation(mutations, ref) = {})
                         => lots_ref' = LotsMemeCommune(mutations, ref)
       /\ pc # "debut" => lots_ref' = lots_ref]_vars

\* C21 witness: the reference row has no lot, a mutation of the same commune
\* and designation carries lot 9, a mutation of the same commune and another
\* designation carries lot 17, and the loop works with lot 9 alone
PremierEnsembleNonVideTemoin ==
    /\ Triees
    /\ LotsPropres(immeubles[1]) = {}
    /\ LotsMemeDesignation(mutations, immeubles[1]) = {Lot9}
    /\ LotsMemeCommune(mutations, immeubles[1]) = {Lot9, Lot17}
    /\ lots_ref = {Lot9}

(***************************************************************************)
(* The rows of lignes_detaillees.                                          *)
(***************************************************************************)
\* the row of the current turn of the loop over lignes_detaillees
ligne_courante == immeubles_mut.lignes_detaillees[j]

\* the assignments the step adds
Nouvelles == {propriete_lots'[k] : k \in (Len(propriete_lots) + 1)..Len(propriete_lots')}

\* the parties of a mutation, disponents and beneficiaries
Parties(m) == ToSet(m.disposant_donateur) \cup ToSet(m.beneficiaire_donataire)

\* the lots of the row that are concerned: the intersection of lots_concernes
\* and the lots of the row
LotsDeLaLigne == lots_concernes \cap ToSet(ligne_courante.lots)

\* C22: a turn of the loop over the rows records, for the lots of the row, the
\* party of the mutation, disponent or beneficiary, whose numero is the
\* beneficiaire_numero of the row; every assignment it records carries the
\* date_depot of the mutation and a lot of the intersection of lots_concernes
\* and the lots of the row
PartieDeLaLigne ==
    [][pc = "ligne" =>
          LET designees == {p \in Parties(mutation) :
                               p.numero = ligne_courante.beneficiaire_numero}
          IN  /\ \A e \in Nouvelles :
                    /\ e.lot \in LotsDeLaLigne
                    /\ e.date_acquisition = mutation.date_depot
                    /\ e.proprietaire \in designees
              /\ designees # {} =>
                    \A lot \in LotsDeLaLigne : lot \in Cles(propriete_lots')]_vars

\* the same without the whole-property mode and for beneficiaries alone
PartieDeLaLigneBeneficiaire ==
    [][(pc = "ligne" /\ IMMEUBLE_ENTIER \notin lots_concernes) =>
          LET designees == {p \in ToSet(mutation.beneficiaire_donataire) :
                               p.numero = ligne_courante.beneficiaire_numero}
          IN  /\ \A e \in Nouvelles :
                    /\ e.lot \in LotsDeLaLigne
                    /\ e.date_acquisition = mutation.date_depot
                    /\ e.proprietaire \in designees
              /\ designees # {} =>
                    \A lot \in LotsDeLaLigne : lot \in Cles(propriete_lots')]_vars

\* C22 (amended): a turn of the loop over the rows looks for the first
\* beneficiary of the mutation whose numero is the beneficiaire_numero of the
\* row, disponents being left aside.  When there is one, the lots of the row
\* that are in lots_concernes, or the whole-property sentinel when
\* lots_concernes is the sentinel, and that have no assignment yet are
\* recorded to that beneficiary with the date_depot of the mutation; when
\* there is none, the turn records nothing
BeneficiaireDeLaLigne ==
    [][pc = "ligne" =>
          LET beneficiaires == mutation.beneficiaire_donataire
              numero == ligne_courante.beneficiaire_numero
              designes == {k \in 1..Len(beneficiaires) : beneficiaires[k].numero = numero}
              lots_ligne == IF IMMEUBLE_ENTIER \in lots_concernes
                            THEN {IMMEUBLE_ENTIER}
                            ELSE LotsDeLaLigne
          IN  /\ \A e \in Nouvelles :
                    /\ e.lot \in lots_ligne
                    /\ e.date_acquisition = mutation.date_depot
                    /\ \E k \in designes :
                          /\ \A n \in designes : k <= n
                          /\ e.proprietaire = beneficiaires[k]
              /\ Cles(propriete_lots') =
                     Cles(propriete_lots) \cup (IF designes # {} THEN lots_ligne ELSE {})
              /\ SubSeq(propriete_lots', 1, Len(propriete_lots)) = propriete_lots]_vars

\* C22 witness: the rows of a mutation gone through name the numero of its
\* disponent, which no beneficiary of it carries, and nothing is recorded from
\* that mutation; a row of another mutation names the second beneficiary, to
\* whom lot 17 is recorded
BeneficiaireDeLaLigneTemoin ==
    /\ pc = "verifier"
    /\ \E a \in 1..Len(traitees) :
        LET m == mutations_triees[traitees[a]]
        IN  /\ m.immeubles.lignes_detaillees # <<>>
            /\ m.beneficiaire_donataire # <<>>
            /\ ConcerneImmeuble(m.immeubles, immeubles[1])
            /\ LotsConcernes(lots_ref, m.immeubles) # {}
            /\ \A n \in 1..Len(m.immeubles.lignes_detaillees) :
                /\ \E p \in ToSet(m.disposant_donateur) :
                       p.numero = m.immeubles.lignes_detaillees[n].beneficiaire_numero
                /\ \A p \in ToSet(m.beneficiaire_donataire) :
                       p.numero # m.immeubles.lignes_detaillees[n].beneficiaire_numero
            /\ \A k \in 1..Len(propriete_lots) :
                   propriete_lots[k].numero_ordre_mutation # m.numero_ordre
    /\ \E k \in 1..Len(propriete_lots) :
        /\ propriete_lots[k].lot = Lot17
        /\ propriete_lots[k].proprietaire = PY2

(***************************************************************************)
(* The mutations that assign.                                              *)
(***************************************************************************)
\* the mutation carries no property descriptor
SansDescripteur(m) ==
    /\ m.immeubles.commune = <<>>
    /\ m.immeubles.designation_cadastrale = <<>>
    /\ m.immeubles.lots = <<>>
    /\ m.immeubles.lignes_detaillees = <<>>

\* the mutation is about the reference property
Pertinente(m, ref) ==
    \/ SansDescripteur(m)
    \/ /\ m.immeubles.commune # <<>>
       /\ CommuneDansReference(m, ref)
       /\ m.immeubles.designation_cadastrale = ref.designation_cadastrale

lots_mutation == ToSet(immeubles_mut.lots)

\* the intersection of the two lot sets, the sentinel when both are empty
LotsAttendus ==
    IF lots_ref = {} /\ lots_mutation = {}
    THEN {IMMEUBLE_ENTIER}
    ELSE lots_ref \cap lots_mutation

\* C24: for a mutation about the reference property, the lots concerned are
\* the lots common to the reference set and to the mutation, and the sentinel
\* alone exactly when both sets are empty: a step of the mutation records no
\* key outside them, the sentinel only when both sets are empty, nothing at all
\* when they are empty, and the branch of the first beneficiary gives an
\* assignment to every one of them
LotsConcernesParIntersection ==
    [][(pc \in {"mutation", "ligne"} /\ Pertinente(mutation, immeubles[1])) =>
          /\ lots_concernes = LotsAttendus
          /\ {e.lot : e \in Nouvelles} \subseteq LotsAttendus
          /\ (IMMEUBLE_ENTIER \in LotsAttendus) <=> (lots_ref = {} /\ lots_mutation = {})
          /\ (IMMEUBLE_ENTIER \in {e.lot : e \in Nouvelles}) => (lots_ref = {} /\ lots_mutation = {})
          /\ LotsAttendus = {} => propriete_lots' = propriete_lots
          /\ (/\ pc = "mutation"
              /\ mutation.beneficiaire_donataire # <<>>
              /\ immeubles_mut.lignes_detaillees = <<>>)
                => Cles(propriete_lots') = Cles(propriete_lots) \cup LotsAttendus]_vars

\* C24 witness: the reference has lot 9, the mutation names lots 9 and 17, and
\* the mutation has recorded lot 9 and nothing else
LotsConcernesParIntersectionTemoin ==
    /\ pc = "verifier"
    /\ Pertinente(mutation, immeubles[1])
    /\ lots_ref = {Lot9}
    /\ lots_mutation = {Lot9, Lot17}
    /\ {propriete_lots[k].lot : k \in {n \in 1..Len(propriete_lots) :
            propriete_lots[n].numero_ordre_mutation = mutation.numero_ordre}} = {Lot9}

(***************************************************************************)
(* The keys of propriete_lots.                                             *)
(***************************************************************************)
\* C27: in every state of the reconstruction the keys of propriete_lots are
\* lots of the reference set when that set has lots, and nothing but the
\* whole-property sentinel when it has none; hence never the sentinel beside a
\* lot, and never a lot outside the reference set
ClesDansLaReference ==
    /\ lots_ref # {} => Cles(propriete_lots) \subseteq lots_ref
    /\ lots_ref = {} => Cles(propriete_lots) \subseteq {IMMEUBLE_ENTIER}
    /\ IMMEUBLE_ENTIER \in Cles(propriete_lots) => Cles(propriete_lots) = {IMMEUBLE_ENTIER}
    /\ \A k \in 1..Len(propriete_lots) :
           propriete_lots[k].lot # IMMEUBLE_ENTIER => propriete_lots[k].lot \in lots_ref

\* C27 witness: the reference has lot 9 alone; a mutation gone through has a
\* row that gives lots 9 and 17 to one of its beneficiaries, and lot 9 is the
\* only key
ClesDansLaReferenceTemoin ==
    /\ pc = "verifier"
    /\ lots_ref = {Lot9}
    /\ Cles(propriete_lots) = {Lot9}
    /\ \E a \in 1..Len(traitees) :
        LET m == mutations_triees[traitees[a]]
        IN  \E n \in 1..Len(m.immeubles.lignes_detaillees) :
                /\ {Lot9, Lot17} \subseteq ToSet(m.immeubles.lignes_detaillees[n].lots)
                /\ \E p \in ToSet(m.beneficiaire_donataire) :
                       p.numero = m.immeubles.lignes_detaillees[n].beneficiaire_numero

(***************************************************************************)
(* The loop over the sorted mutations without its break.                   *)
(***************************************************************************)
\* the loop over the rows from row k on, from each of the maps given, the lots
\* of a row visited in every order
RECURSIVE LignesTousOrdres(_, _, _, _)
LignesTousOrdres(m, k, dicts, concernes) ==
    IF k > Len(m.immeubles.lignes_detaillees) THEN dicts
    ELSE LET ligne_immeuble == m.immeubles.lignes_detaillees[k]
             lots_ligne_concernes == LotsLigneConcernes(concernes, ligne_immeuble)
             b == BeneficiaireCorrespondant(m.beneficiaire_donataire,
                                            ligne_immeuble.beneficiaire_numero)
         IN  LignesTousOrdres(m, k + 1,
                 IF lots_ligne_concernes # {} /\ b # 0
                 THEN UNION {{AttribuerLots(d, o, m.beneficiaire_donataire[b],
                                            ligne_immeuble.droits, m) :
                                  o \in Ordres(lots_ligne_concernes)} : d \in dicts}
                 ELSE dicts,
                 concernes)

\* the body of the loop for mutation m, from each of the maps given
MutationTousOrdres(m, dicts, ref_lots, ref) ==
    LET concernes == LotsConcernes(ref_lots, m.immeubles)
    IN  IF \/ ~ConcerneImmeuble(m.immeubles, ref)
           \/ concernes = {}
           \/ m.beneficiaire_donataire = <<>>
        THEN dicts
        ELSE IF m.immeubles.lignes_detaillees # <<>>
        THEN LignesTousOrdres(m, 1, dicts, concernes)
        ELSE UNION {{AttribuerLots(d, o, m.beneficiaire_donataire[1],
                                   m.immeubles.droits, m) : o \in Ordres(concernes)} :
                        d \in dicts}

\* the loop from mutation k on, never left before the end of the list
RECURSIVE SuiteSansArret(_, _, _, _, _)
SuiteSansArret(triees, k, dicts, ref_lots, ref) ==
    IF k > Len(triees) THEN dicts
    ELSE SuiteSansArret(triees, k + 1, MutationTousOrdres(triees[k], dicts, ref_lots, ref),
                        ref_lots, ref)

\* C28: the list returned is the one the loop gives when it goes on to the end
\* of the sorted mutations instead of stopping: carried on over the mutations
\* the break left aside, whatever the order in which their lots are visited,
\* the loop ends with the same map, and the records built from it are the
\* records returned
MemeResultatSansArret ==
    [][pc = "construire" =>
          LET suites == SuiteSansArret(mutations_triees, i + 1, {propriete_lots},
                                       lots_ref, immeubles[1])
          IN  /\ suites = {propriete_lots}
              /\ \A d \in suites :
                    propriete_actuelle' = ProprietesConnues(d, immeubles[1])
                                              \o ProprieteInconnue(lots_ref, d, immeubles[1])]_vars

\* C28 witness: the loop stopped after the first of two mutations, lot 9 being
\* the whole reference set; the mutation left aside gives lot 9, in a row, to a
\* beneficiary who is not the owner recorded
MemeResultatSansArretTemoin ==
    /\ pc = "fin"
    /\ lots_ref = {Lot9}
    /\ i = 1
    /\ Len(mutations_triees) = 2
    /\ Len(propriete_lots) = 1
    /\ LET m == mutations_triees[2]
       IN  /\ Pertinente(m, immeubles[1])
           /\ \E n \in 1..Len(m.immeubles.lignes_detaillees) :
                /\ Lot9 \in ToSet(m.immeubles.lignes_detaillees[n].lots)
                /\ \E p \in ToSet(m.beneficiaire_donataire) :
                     /\ p.numero = m.immeubles.lignes_detaillees[n].beneficiaire_numero
                     /\ p # propriete_lots[1].proprietaire

(***************************************************************************)
(* The lots of the returned records.                                       *)
(***************************************************************************)
\* the lots of the n-th returned record
LotsDuRecord(n) == ToSet(propriete_actuelle[n].lots)

\* C29: when the function has returned from a list of mutations and a reference
\* lot set that are not empty, the lots lists of the records are a partition of
\* the reference lot set: no list is empty or names a lot twice, no lot is in
\* two records, the lists together are the reference lot set, and the lots that
\* were not assigned are those of the record of the unknown owner
PartitionDeLaReference ==
    (Termine /\ lots_ref # {}) =>
        /\ \A n \in 1..Len(propriete_actuelle) :
              /\ propriete_actuelle[n].lots # <<>>
              /\ Cardinality(LotsDuRecord(n)) = Len(propriete_actuelle[n].lots)
        /\ \A a, b \in 1..Len(propriete_actuelle) :
              a # b => LotsDuRecord(a) \cap LotsDuRecord(b) = {}
        /\ UNION {LotsDuRecord(n) : n \in 1..Len(propriete_actuelle)} = lots_ref
        /\ \A n \in 1..Len(propriete_actuelle) :
              IF propriete_actuelle[n].proprietaire.designation = PROPRIETAIRE_INCONNU
              THEN LotsDuRecord(n) = lots_ref \ Cles(propriete_lots)
              ELSE LotsDuRecord(n) \subseteq Cles(propriete_lots)

\* C29 witness: of the reference lots 9 and 17, one went to a beneficiary and
\* the other to nobody; two records are returned
PartitionDeLaReferenceTemoin ==
    /\ Termine
    /\ lots_ref = {Lot9, Lot17}
    /\ Len(propriete_actuelle) = 2
    /\ Cardinality(Cles(propriete_lots)) = 1
    /\ \E n \in 1..2 :
          /\ propriete_actuelle[n].proprietaire.designation = PROPRIETAIRE_INCONNU
          /\ Cardinality(LotsDuRecord(n)) = 1

\* the reference lots 9 and 17 went to two owners
PartitionEntreDeux ==
    /\ Termine
    /\ lots_ref = {Lot9, Lot17}
    /\ Len(propriete_actuelle) = 2
    /\ Cles(propriete_lots) = lots_ref

(***************************************************************************)
(* extract_formalites_from_pdf: the split of the text and the fields of    *)
(* each formality.  A text is a sequence of lexical items separated by     *)
(* blanks: the anchor phrase ("Date de dépôt :" in any of the spellings    *)
(* the pattern accepts), a line break, a DD/MM/YYYY date, the label        *)
(* "Date de l'acte :", the label "Réference d'enliassement :", or a word   *)
(* that is none of these.  nature_acte_redacteur is not part of this       *)
(* model of the record.                                                    *)
(***************************************************************************)
Lexemes == {"ANCRE", "NL", "MOT", "ACTE", "REF", "DATE_A", "DATE_B"}

EstLexemeDate(t) == t \in {"DATE_A", "DATE_B"}

\* the string of a date item
ValeurDate(t) == IF t = "DATE_A" THEN DateA ELSE DateB

\* section.strip()
RECURSIVE Nettoyer(_)
Nettoyer(section) ==
    IF section # <<>> /\ section[1] = "NL" THEN Nettoyer(Tail(section))
    ELSE IF section # <<>> /\ section[Len(section)] = "NL"
    THEN Nettoyer(SubSeq(section, 1, Len(section) - 1))
    ELSE section

\* variant: a piece is kept only when it holds a date
SectionRetenueSiDatee(contenu) ==
    contenu # <<>> /\ \E k \in 1..Len(contenu) : EstLexemeDate(contenu[k])

\* "if contenu:"
SectionRetenue(contenu) == contenu # <<>>

\* re.search(r"(\d{2}/\d{2}/\d{4})", contenu)
DateDepot(contenu) ==
    IF \E k \in 1..Len(contenu) : EstLexemeDate(contenu[k])
    THEN ValeurDate(contenu[CHOOSE k \in 1..Len(contenu) :
                        /\ EstLexemeDate(contenu[k])
                        /\ \A n \in 1..(k - 1) : ~EstLexemeDate(contenu[n])])
    ELSE NonTrouve

\* the label at k is followed, blanks and line breaks apart, by a date at d
ActeSuiviDeDate(contenu, k, d) ==
    /\ contenu[k] = "ACTE"
    /\ d > k /\ EstLexemeDate(contenu[d])
    /\ \A n \in (k + 1)..(d - 1) : contenu[n] = "NL"

\* re.search(r"Date de l'acte\s*:\s*(\d{2}/\d{2}/\d{4})", contenu, re.IGNORECASE)
DateActe(contenu) ==
    LET P == {k \in 1..Len(contenu) : \E d \in 1..Len(contenu) : ActeSuiviDeDate(contenu, k, d)}
    IN  IF P = {} THEN NonTrouve
        ELSE LET k == CHOOSE x \in P : \A y \in P : x <= y
                 d == CHOOSE x \in 1..Len(contenu) : ActeSuiviDeDate(contenu, k, x)
             IN  ValeurDate(contenu[d])

\* the label at k is followed, blanks and line breaks apart, by something at d
RefSuivieDeTexte(contenu, k, d) ==
    /\ contenu[k] = "REF"
    /\ d > k /\ contenu[d] # "NL"
    /\ \A n \in (k + 1)..(d - 1) : contenu[n] = "NL"

\* [^\n]+ from d: up to the end of the line
RECURSIVE FinDeLigne(_, _)
FinDeLigne(contenu, d) ==
    IF d > Len(contenu) \/ contenu[d] = "NL" THEN <<>>
    ELSE <<contenu[d]>> \o FinDeLigne(contenu, d + 1)

\* re.sub(r'\s+Date de l\'acte\s*:\s*\d{2}/\d{2}/\d{4}', '', ref), from item k on
RECURSIVE OterDateActe(_, _)
OterDateActe(ref, k) ==
    IF k >= Len(ref) THEN ref
    ELSE IF k >= 2 /\ ref[k] = "ACTE" /\ EstLexemeDate(ref[k + 1])
    THEN OterDateActe(SubSeq(ref, 1, k - 1) \o SubSeq(ref, k + 2, Len(ref)), k)
    ELSE OterDateActe(ref, k + 1)

\* reference_enliassement: "" unless the label is found with text after it
ReferenceEnliassement(contenu) ==
    LET P == {k \in 1..Len(contenu) : \E d \in 1..Len(contenu) : RefSuivieDeTexte(contenu, k, d)}
    IN  IF P = {} THEN <<>>
        ELSE LET k == CHOOSE x \in P : \A y \in P : x <= y
                 d == CHOOSE x \in 1..Len(contenu) : RefSuivieDeTexte(contenu, k, x)
             IN  OterDateActe(FinDeLigne(contenu, d), 1)

\* variant: the formalities are numbered by a counter of those emitted
NumeroOrdreCompteur(indice, deja) == Len(deja) + 1

\* "numero_ordre": i
NumeroOrdre(indice, deja) == indice

\* the dict built for a piece that is kept
Formalite(indice, contenu, deja) ==
    [numero_ordre |-> NumeroOrdre(indice, deja),
     date_depot |-> DateDepot(contenu),
     date_acte |-> DateActe(contenu),
     contenu |-> <<"DEPOT">> \o contenu,
     reference_enliassement |-> ReferenceEnliassement(contenu)]

\* the texts of at most MaxLongueur items
Textes == UNION {[1..n -> Lexemes] : n \in 0..MaxLongueur}

InitFormalites ==
    /\ full_text \in Textes
    /\ pc = "lire"
    /\ sections = <<>>
    /\ i_section = 0
    /\ formalites = <<>>
    /\ mutations = <<>>
    /\ immeubles = <<>>
    /\ lots_ref = {}
    /\ mutations_triees = <<>>
    /\ i = 0
    /\ j = 0
    /\ propriete_lots = <<>>
    /\ propriete_actuelle = <<>>
    /\ traitees = <<>>
    /\ i_formalite = 0
    /\ hypotheques = <<>>
    /\ radiations = <<>>
    /\ i_hypotheque = 0
    /\ i_analyse = 0
    /\ hypotheques_actives = <<>>
    /\ ReposActes
    /\ ReposRequetes
    /\ ReposTableau

\* re.split(depot_pattern, full_text, flags=re.IGNORECASE)
Decouper ==
    /\ pc = "lire"
    /\ sections' = Split(full_text, "ANCRE")
    /\ i_section' = 0
    /\ pc' = "section"
    /\ UNCHANGED <<full_text, formalites>>
    /\ UNCHANGED horsFormalites

\* "if i == 0: continue"
Preambule ==
    /\ pc = "section"
    /\ i_section = 0
    /\ i_section' = 1
    /\ UNCHANGED <<pc, full_text, sections, formalites>>
    /\ UNCHANGED horsFormalites

\* a piece with nothing but blanks and line breaks
SectionVide ==
    /\ pc = "section"
    /\ i_section >= 1 /\ i_section < Len(sections)
    /\ ~SectionRetenue(Nettoyer(sections[i_section + 1]))
    /\ i_section' = i_section + 1
    /\ UNCHANGED <<pc, full_text, sections, formalites>>
    /\ UNCHANGED horsFormalites

\* a piece with content: one formality
SectionFormalite ==
    /\ pc = "section"
    /\ i_section >= 1 /\ i_section < Len(sections)
    /\ SectionRetenue(Nettoyer(sections[i_section + 1]))
    /\ formalites' = Append(formalites,
                         Formalite(i_section, Nettoyer(sections[i_section + 1]), formalites))
    /\ i_section' = i_section + 1
    /\ UNCHANGED <<pc, full_text, sections>>
    /\ UNCHANGED horsFormalites

\* the pieces are exhausted
FinSections ==
    /\ pc = "section"
    /\ i_section = Len(sections)
    /\ pc' = "formalites"
    /\ UNCHANGED varsFormalites
    /\ UNCHANGED horsFormalites

NextFormalites ==
    \/ Decouper
    \/ Preambule
    \/ SectionVide
    \/ SectionFormalite
    \/ FinSections

SpecFormalites == InitFormalites /\ [][NextFormalites]_vars

(***************************************************************************)
(* Properties of extract_formalites_from_pdf                               *)
(***************************************************************************)
\* the occurrences of the anchor phrase in the text
NbAncres == Cardinality({k \in 1..Len(full_text) : full_text[k] = "ANCRE"})

\* the extraction has returned
Extrait == pc = "formalites"

\* the numero_ordre values, in the order of the list
Numeros == [k \in 1..Len(formalites) |-> formalites[k].numero_ordre]

\* the piece after the k-th anchor holds something else than line breaks
NonBlanche(k) == \E n \in 1..Len(sections[k + 1]) : sections[k + 1][n] # "NL"

\* C5 (as stated): the numero_ordre values returned are exactly 1..N in
\* increasing order without gap, N being the number of anchor phrases.
NumerosSansTrou == Extrait => Numeros = [k \in 1..NbAncres |-> k]

\* C5 (amended): at every point of the loop the numero_ordre values are
\* strictly increasing, lie in 1..N, and are exactly the positions of the
\* pieces already visited that are not blank; they are 1..N only when no
\* piece is blank.
NumerosDesSectionsNonBlanches ==
    /\ \A k \in 1..(Len(formalites) - 1) : Numeros[k] < Numeros[k + 1]
    /\ ToSet(Numeros) \subseteq 1..NbAncres
    /\ ToSet(Numeros) = {k \in 1..(i_section - 1) : NonBlanche(k)}
    /\ Extrait => i_section = NbAncres + 1

\* C5 witness: a text whose first piece is blank and whose second is not
NumerosDesSectionsNonBlanchesTemoin ==
    /\ Extrait
    /\ NbAncres = 2
    /\ Numeros = <<2>>

\* C6 (as stated): every piece after the preamble, one without content
\* included, becomes exactly one formality.
ChaqueSectionUneFormalite == Extrait => Len(formalites) = Len(sections) - 1

\* the formalities emitted for the piece after the k-th anchor
FormalitesDe(k) == {n \in 1..Len(formalites) : formalites[n].numero_ordre = k}

\* the piece after the k-th anchor holds no date
SansDate(k) == \A n \in 1..Len(sections[k + 1]) : ~EstLexemeDate(sections[k + 1][n])

\* the piece after the k-th anchor holds no reference label
SansReference(k) == \A n \in 1..Len(sections[k + 1]) : sections[k + 1][n] # "REF"

\* C6 (amended): every piece after the preamble that is not blank becomes
\* exactly one formality, whose dates are the not-found sentinel when the
\* piece holds no date and whose reference is the empty string when the piece
\* holds no reference label; a blank piece becomes none.
ChaqueSectionNonBlancheUneFormalite ==
    Extrait =>
        \A k \in 1..(Len(sections) - 1) :
            /\ NonBlanche(k) => Cardinality(FormalitesDe(k)) = 1
            /\ ~NonBlanche(k) => FormalitesDe(k) = {}
            /\ \A n \in FormalitesDe(k) :
                /\ SansDate(k) => /\ formalites[n].date_depot = NonTrouve
                                  /\ formalites[n].date_acte = NonTrouve
                /\ SansReference(k) => formalites[n].reference_enliassement = <<>>

\* C6 witness: a piece where no field pattern matches has been emitted with
\* the sentinels, next to a blank piece that has not
ChaqueSectionNonBlancheUneFormaliteTemoin ==
    /\ Extrait
    /\ Len(formalites) < Len(sections) - 1
    /\ \E n \in 1..Len(formalites) :
        /\ formalites[n].date_depot = NonTrouve
        /\ formalites[n].date_acte = NonTrouve
        /\ formalites[n].reference_enliassement = <<>>

(***************************************************************************)
(* analyser_hypotheques_actives.  Here the formalities carry the fields    *)
(* the function reads (numero_ordre, date_depot, nature_acte_redacteur,    *)
(* contenu); lots_volumes, date_acte and reference_enliassement of the     *)
(* returned records are not part of this model.                            *)
(***************************************************************************)
MaxFormalites == 3

RADIATION == <<82, 65, 68, 73, 65, 84, 73, 79, 78>>  \* "RADIATION"
TOTALE == <<84, 79, 84, 65, 76, 69>>  \* "TOTALE"
HYPOTHEQUE == <<72, 89, 80, 79, 84, 72, 69, 81, 85, 69>>  \* "HYPOTHEQUE"
CREANCIERS == <<67, 82, 201, 65, 78, 67, 73, 69, 82, 83>>  \* "CRÉANCIERS"
DEBITEUR == <<68, 201, 66, 73, 84, 69, 85, 82>>  \* "DÉBITEUR"
PROPRIETAIRES_IMMEUBLE == <<80, 82, 79, 80, 82, 73, 201, 84, 65, 73, 82, 69, 83, 32, 73, 77, 77, 69, 85, 66, 76, 69>>  \* "PROPRIÉTAIRES IMMEUBLE"
ACTIVE == <<65, 67, 84, 73, 86, 69>>  \* "ACTIVE"
DateC == <<49, 50, 47, 48, 51, 47, 50, 48, 49, 48>>  \* "12/03/2010"
NatureHypotheque == <<72, 89, 80, 79, 84, 72, 69, 81, 85, 69, 32, 67, 79, 78, 86, 69, 78, 84, 73, 79, 78, 78, 69, 76, 76, 69>>  \* "HYPOTHEQUE CONVENTIONNELLE"
NatureHypothequeMinuscule == <<104, 121, 112, 111, 116, 104, 101, 113, 117, 101, 32, 108, 101, 103, 97, 108, 101>>  \* "hypotheque legale"
NatureVente == <<86, 69, 78, 84, 69>>  \* "VENTE"
NatureRadiationC == <<82, 65, 68, 73, 65, 84, 73, 79, 78, 32, 84, 79, 84, 65, 76, 69, 32, 68, 69, 32, 76, 39, 72, 89, 80, 79, 84, 72, 69, 81, 85, 69, 32, 68, 85, 32, 49, 50, 47, 48, 51, 47, 50, 48, 49, 48>>  \* "RADIATION TOTALE DE L'HYPOTHEQUE DU 12/03/2010"
NatureRadiationB == <<114, 97, 100, 105, 97, 116, 105, 111, 110, 32, 116, 111, 116, 97, 108, 101, 32, 100, 117, 32, 48, 49, 47, 48, 50, 47, 50, 48, 49, 49>>  \* "radiation totale du 01/02/2011"
NaturePartielleC == <<82, 65, 68, 73, 65, 84, 73, 79, 78, 32, 80, 65, 82, 84, 73, 69, 76, 76, 69, 32, 68, 85, 32, 49, 50, 47, 48, 51, 47, 50, 48, 49, 48>>  \* "RADIATION PARTIELLE DU 12/03/2010"
NatureRadiationSansDate == <<82, 65, 68, 73, 65, 84, 73, 79, 78, 32, 84, 79, 84, 65, 76, 69>>  \* "RADIATION TOTALE"
ContenuImplicite == <<67, 114, 233, 97, 110, 99, 105, 101, 114, 115, 32, 58, 32, 66, 65, 78, 81, 85, 69, 32, 68, 233, 98, 105, 116, 101, 117, 114, 32, 58, 32, 88>>  \* "Créanciers : BANQUE Débiteur : X"
ContenuProprietaires == <<67, 82, 201, 65, 78, 67, 73, 69, 82, 83, 32, 80, 82, 79, 80, 82, 73, 201, 84, 65, 73, 82, 69, 83, 32, 73, 77, 77, 69, 85, 66, 76, 69>>  \* "CRÉANCIERS PROPRIÉTAIRES IMMEUBLE"
ContenuNeutre == <<68, 105, 115, 112, 111, 115, 97, 110, 116, 32, 58, 32, 88>>  \* "Disposant : X"
ContenuMutation == <<68, 105, 115, 112, 111, 115, 97, 110, 116, 10, 49, 32, 68, 85, 80, 79, 78, 84, 32, 48, 49, 47, 48, 49, 47, 49, 57, 55, 48>>  \* "Disposant", line break, "1 DUPONT 01/01/1970"
ContenuImpliciteParties == <<67, 114, 233, 97, 110, 99, 105, 101, 114, 115, 10, 49, 32, 66, 65, 78, 81, 85, 69, 32, 49, 50, 51, 32, 52, 53, 54, 32, 55, 56, 57, 10, 68, 233, 98, 105, 116, 101, 117, 114, 32, 47, 32, 68, 105, 115, 112, 111, 115, 97, 110, 116, 10, 50, 32, 68, 85, 80, 79, 78, 84, 32, 48, 49, 47, 48, 49, 47, 49, 57, 55, 48>>  \* "Créanciers", line break, "1 BANQUE 123 456 789", line break, "Débiteur / Disposant", line break, "2 DUPONT 01/01/1970"
DISPOSANT == <<68, 73, 83, 80, 79, 83, 65, 78, 84>>  \* "DISPOSANT"
BENEFICIAIRE == <<66, 201, 78, 201, 70, 73, 67, 73, 65, 73, 82, 69>>  \* "BÉNÉFICIAIRE"

\* variant: the radiation marker alone makes a cancellation
EstRadiationSansTotale(formalite) ==
    Contains(Upper(formalite.nature_acte_redacteur), RADIATION)

\* "RADIATION" in nature_acte and "TOTALE" in nature_acte, nature_acte upper-cased
EstRadiation(formalite) ==
    /\ Contains(Upper(formalite.nature_acte_redacteur), RADIATION)
    /\ Contains(Upper(formalite.nature_acte_redacteur), TOTALE)

\* est_hypotheque_explicite
EstHypothequeExplicite(formalite) ==
    Contains(Upper(formalite.nature_acte_redacteur), HYPOTHEQUE)

\* est_hypotheque_implicite
EstHypothequeImplicite(formalite) ==
    /\ Contains(Upper(formalite.contenu), CREANCIERS)
    /\ \/ Contains(Upper(formalite.contenu), DEBITEUR)
       \/ Contains(Upper(formalite.contenu), PROPRIETAIRES_IMMEUBLE)

\* variant: any cancellation cancels the mortgage, whatever date it names
EstRadieeSansDate(hypotheque, rads) ==
    \E k \in 1..Len(rads) :
        /\ Contains(Upper(rads[k].nature_acte_redacteur), RADIATION)
        /\ Contains(Upper(rads[k].nature_acte_redacteur), TOTALE)

\* est_radiee after the loop over radiations
EstRadiee(hypotheque, rads) ==
    \E k \in 1..Len(rads) :
        /\ Contains(rads[k].nature_acte_redacteur, hypotheque.date_depot)
        /\ Contains(Upper(rads[k].nature_acte_redacteur), RADIATION)
        /\ Contains(Upper(rads[k].nature_acte_redacteur), TOTALE)

\* the dict appended to hypotheques_actives
HypothequeActive(hypotheque) ==
    [numero_ordre |-> hypotheque.numero_ordre,
     date_depot |-> hypotheque.date_depot,
     nature_acte |-> hypotheque.nature_acte_redacteur,
     contenu |-> hypotheque.contenu,
     statut |-> ACTIVE]

\* <<date_depot, nature_acte_redacteur, contenu>> of the formalities tried
FormesFormalite ==
    {<<DateC, NatureHypotheque, ContenuNeutre>>,
     <<DateB, NatureHypothequeMinuscule, ContenuMutation>>,
     <<DateC, NatureVente, ContenuImplicite>>,
     <<DateB, NatureVente, ContenuProprietaires>>,
     <<NonTrouve, NatureHypotheque, ContenuNeutre>>,
     <<DateB, NatureVente, ContenuNeutre>>,
     <<DateB, NatureRadiationC, ContenuNeutre>>,
     <<DateC, NatureRadiationB, ContenuImplicite>>,
     <<DateB, NaturePartielleC, ContenuMutation>>,
     <<DateB, NatureRadiationSansDate, ContenuNeutre>>,
     <<DateB, NatureVente, ContenuMutation>>,
     <<DateC, NatureVente, ContenuImpliciteParties>>}

\* the lists of at most MaxFormalites formalities, numbered by position
ListesFormalites ==
    {[k \in 1..Len(c) |-> [numero_ordre |-> k,
                           date_depot |-> c[k][1],
                           nature_acte_redacteur |-> c[k][2],
                           contenu |-> c[k][3]]] :
        c \in UNION {[1..n -> FormesFormalite] : n \in 0..MaxFormalites}}

InitHypotheques ==
    /\ formalites \in ListesFormalites
    /\ pc = "separer"
    /\ i_formalite = 0
    /\ hypotheques = <<>>
    /\ radiations = <<>>
    /\ i_hypotheque = 0
    /\ i_analyse = 0
    /\ hypotheques_actives = <<>>
    /\ ReposActes
    /\ ReposRequetes
    /\ ReposTableau
    /\ full_text = <<>>
    /\ sections = <<>>
    /\ i_section = 0
    /\ mutations = <<>>
    /\ immeubles = <<>>
    /\ lots_ref = {}
    /\ mutations_triees = <<>>
    /\ i = 0
    /\ j = 0
    /\ propriete_lots = <<>>
    /\ propriete_actuelle = <<>>
    /\ traitees = <<>>

\* the formality of the current turn of the first loop
formalite == formalites[i_formalite + 1]

\* the mortgage of the current turn of the second loop
hypotheque == hypotheques[i_hypotheque + 1]

\* the formality is a cancellation
ClasserRadiation ==
    /\ pc = "separer"
    /\ i_formalite < Len(formalites)
    /\ EstRadiation(formalite)
    /\ radiations' = Append(radiations, formalite)
    /\ i_formalite' = i_formalite + 1
    /\ UNCHANGED <<pc, hypotheques, i_hypotheque, hypotheques_actives, i_analyse>>
    /\ UNCHANGED horsHypotheques

\* the formality is not a cancellation and is a mortgage
ClasserHypotheque ==
    /\ pc = "separer"
    /\ i_formalite < Len(formalites)
    /\ ~EstRadiation(formalite)
    /\ EstHypothequeExplicite(formalite) \/ EstHypothequeImplicite(formalite)
    /\ hypotheques' = Append(hypotheques, formalite)
    /\ i_formalite' = i_formalite + 1
    /\ UNCHANGED <<pc, radiations, i_hypotheque, hypotheques_actives, i_analyse>>
    /\ UNCHANGED horsHypotheques

\* the formality is neither
ClasserAutre ==
    /\ pc = "separer"
    /\ i_formalite < Len(formalites)
    /\ ~EstRadiation(formalite)
    /\ ~(EstHypothequeExplicite(formalite) \/ EstHypothequeImplicite(formalite))
    /\ i_formalite' = i_formalite + 1
    /\ UNCHANGED <<pc, hypotheques, radiations, i_hypotheque, hypotheques_actives, i_analyse>>
    /\ UNCHANGED horsHypotheques

\* the first loop is over
FinClassement ==
    /\ pc = "separer"
    /\ i_formalite = Len(formalites)
    /\ pc' = "activer"
    /\ UNCHANGED varsHypotheques
    /\ UNCHANGED horsHypotheques

\* a cancellation names the mortgage: it is left out
HypothequeRadiee ==
    /\ pc = "activer"
    /\ i_hypotheque < Len(hypotheques)
    /\ EstRadiee(hypotheque, radiations)
    /\ i_hypotheque' = i_hypotheque + 1
    /\ UNCHANGED <<pc, i_formalite, hypotheques, radiations, hypotheques_actives, i_analyse>>
    /\ UNCHANGED horsHypotheques

\* "if not est_radiee": the mortgage is appended to hypotheques_actives
HypothequeNonRadiee ==
    /\ pc = "activer"
    /\ i_hypotheque < Len(hypotheques)
    /\ ~EstRadiee(hypotheque, radiations)
    /\ hypotheques_actives' = Append(hypotheques_actives, HypothequeActive(hypotheque))
    /\ i_hypotheque' = i_hypotheque + 1
    /\ UNCHANGED <<pc, i_formalite, hypotheques, radiations, i_analyse>>
    /\ UNCHANGED horsHypotheques

\* return hypotheques_actives
RetourHypotheques ==
    /\ pc = "activer"
    /\ i_hypotheque = Len(hypotheques)
    /\ pc' = "hypotheques"
    /\ UNCHANGED varsHypotheques
    /\ UNCHANGED horsHypotheques

(***************************************************************************)
(* analyser_mutations, run on the same list after the mortgage analysis.   *)
(* The contents tried hold none of the table headers ("Désignation des     *)
(* personnes", "Désignation cadastrale"), so extraire_mutations finds      *)
(* parties only by its search of a row after the word Disposant or         *)
(* Bénéficiaire and finds no "Immeubles" table.  The data extracted are    *)
(* not part of the records of this model, only whether there are any.      *)
(***************************************************************************)
\* [A-Z\'] under re.IGNORECASE
EstLettreNom(c) == (c >= 65 /\ c <= 90) \/ (c >= 97 /\ c <= 122) \/ c = 39

\* \d{n} at position p
Chiffres(s, p, n) == p + n - 1 <= Len(s) /\ \A k \in p..(p + n - 1) : EstChiffre(s[k])

\* \s+ from p up to q - 1
Blancs(s, p, q) == q > p /\ q - 1 <= Len(s) /\ \A k \in p..(q - 1) : IsSpace(s[k])

\* \d{2}/\d{2}/\d{4} at position p
DateEn(s, p) ==
    /\ p + 9 <= Len(s)
    /\ Chiffres(s, p, 2) /\ s[p + 2] = 47
    /\ Chiffres(s, p + 3, 2) /\ s[p + 5] = 47
    /\ Chiffres(s, p + 6, 4)

\* \d{3}\s+\d{3}\s+\d{3} at position p
NumeroEn(s, p) ==
    /\ Chiffres(s, p, 3)
    /\ \E q \in (p + 4)..Len(s) :
        /\ Blancs(s, p + 3, q)
        /\ Chiffres(s, q, 3)
        /\ \E r \in (q + 4)..Len(s) : Blancs(s, q + 3, r) /\ Chiffres(s, r, 3)

\* (\d+)\s+([A-Z\'][A-Z\s\']+?)\s+(\d{2}/\d{2}/\d{4}|\d{3}\s+\d{3}\s+\d{3}),
\* the last digit of the number being at position d
LignePersonne(s, d) ==
    /\ EstChiffre(s[d])
    /\ \E x \in (d + 2)..Len(s) :
        /\ Blancs(s, d + 1, x)
        /\ EstLettreNom(s[x])
        /\ \E z \in (x + 2)..Len(s) :
            /\ \A k \in (x + 1)..(z - 1) : EstLettreNom(s[k]) \/ IsSpace(s[k])
            /\ IsSpace(s[z])
            /\ DateEn(s, z + 1) \/ NumeroEn(s, z + 1)

\* re.search(r"<mot>.*?\n.*?" + the row pattern, contenu, re.IGNORECASE | re.DOTALL)
RecherchePersonne(contenu, mot) ==
    \E a \in 1..(Len(contenu) - Len(mot) + 1) :
        /\ \A k \in 1..Len(mot) : UpperChar(contenu[a + k - 1]) = mot[k]
        /\ \E n \in (a + Len(mot))..Len(contenu) :
            /\ contenu[n] = 10
            /\ \E d \in (n + 1)..Len(contenu) : LignePersonne(contenu, d)

\* extraire_mutations returns parties or immeubles
DonneesTrouvees(contenu) ==
    /\ contenu # <<>>
    /\ RecherchePersonne(contenu, DISPOSANT) \/ RecherchePersonne(contenu, BENEFICIAIRE)

\* "HYPOTHEQUE" not in nature_acte and "RADIATION" not in nature_acte
SansMarqueur(f) ==
    /\ ~Contains(Upper(f.nature_acte_redacteur), HYPOTHEQUE)
    /\ ~Contains(Upper(f.nature_acte_redacteur), RADIATION)

\* the dict appended to mutations
MutationDetectee(f) ==
    [numero_ordre |-> f.numero_ordre,
     date_depot |-> f.date_depot,
     nature_acte |-> f.nature_acte_redacteur]

\* the formality of the current turn of the loop of analyser_mutations
formalite_analysee == formalites[i_analyse + 1]

\* the act text holds a mortgage or radiation marker: not analysed
FormaliteEcartee ==
    /\ pc = "hypotheques"
    /\ i_analyse < Len(formalites)
    /\ ~SansMarqueur(formalite_analysee)
    /\ i_analyse' = i_analyse + 1
    /\ UNCHANGED <<pc, i_formalite, hypotheques, radiations, i_hypotheque, hypotheques_actives>>
    /\ UNCHANGED horsHypotheques

\* analysed, nothing found: not added
FormaliteSansDonnees ==
    /\ pc = "hypotheques"
    /\ i_analyse < Len(formalites)
    /\ SansMarqueur(formalite_analysee)
    /\ ~DonneesTrouvees(formalite_analysee.contenu)
    /\ i_analyse' = i_analyse + 1
    /\ UNCHANGED <<pc, i_formalite, hypotheques, radiations, i_hypotheque, hypotheques_actives>>
    /\ UNCHANGED horsHypotheques

\* analysed, parties found: added to mutations
MutationEmise ==
    /\ pc = "hypotheques"
    /\ i_analyse < Len(formalites)
    /\ SansMarqueur(formalite_analysee)
    /\ DonneesTrouvees(formalite_analysee.contenu)
    /\ mutations' = Append(mutations, MutationDetectee(formalite_analysee))
    /\ i_analyse' = i_analyse + 1
    /\ UNCHANGED <<pc, i_formalite, hypotheques, radiations, i_hypotheque, hypotheques_actives>>
    /\ UNCHANGED <<immeubles, lots_ref, mutations_triees, i, j, propriete_lots,
                   propriete_actuelle, traitees>>
    /\ UNCHANGED <<varsFormalites, varsActes, varsRequetes, varsTableau>>

\* return mutations
RetourMutations ==
    /\ pc = "hypotheques"
    /\ i_analyse = Len(formalites)
    /\ pc' = "mutations"
    /\ UNCHANGED varsHypotheques
    /\ UNCHANGED horsHypotheques

NextHypotheques ==
    \/ ClasserRadiation
    \/ ClasserHypotheque
    \/ ClasserAutre
    \/ FinClassement
    \/ HypothequeRadiee
    \/ HypothequeNonRadiee
    \/ RetourHypotheques
    \/ FormaliteEcartee
    \/ FormaliteSansDonnees
    \/ MutationEmise
    \/ RetourMutations

SpecHypotheques == InitHypotheques /\ [][NextHypotheques]_vars

(***************************************************************************)
(* Properties of analyser_hypotheques_actives                              *)
(***************************************************************************)
\* analyser_hypotheques_actives has returned
Analyse == pc \in {"hypotheques", "mutations"}

\* the numero_ordre values of the mortgages returned as active
NumerosActifs == {hypotheques_actives[k].numero_ordre : k \in 1..Len(hypotheques_actives)}

\* the act text of cancellation r names the deposit date of mortgage h and
\* holds both markers
Designe(r, h) ==
    /\ \E k \in 1..Len(r.nature_acte_redacteur) :
        /\ k + Len(h.date_depot) - 1 <= Len(r.nature_acte_redacteur)
        /\ \A n \in 1..Len(h.date_depot) : r.nature_acte_redacteur[k + n - 1] = h.date_depot[n]
    /\ Contains(Upper(r.nature_acte_redacteur), RADIATION)
    /\ Contains(Upper(r.nature_acte_redacteur), TOTALE)

\* C4: once the analysis has returned, a formality classified as a mortgage
\* is in hypotheques_actives if and only if no formality classified as a
\* cancellation names its date_depot in an act text holding RADIATION and
\* TOTALE; a mortgage deposited on 12/03/2010 is left out when a cancellation
\* reads RADIATION TOTALE DE L'HYPOTHEQUE DU 12/03/2010; and nothing but
\* mortgages is returned.
ActiveSiNonRadiee ==
    Analyse =>
        /\ \A k \in 1..Len(hypotheques) :
            hypotheques[k].numero_ordre \in NumerosActifs
                <=> ~\E n \in 1..Len(radiations) : Designe(radiations[n], hypotheques[k])
        /\ \A k \in 1..Len(hypotheques) :
            (/\ hypotheques[k].date_depot = DateC
             /\ \E n \in 1..Len(radiations) :
                    radiations[n].nature_acte_redacteur = NatureRadiationC)
                => hypotheques[k].numero_ordre \notin NumerosActifs
        /\ NumerosActifs \subseteq {hypotheques[k].numero_ordre : k \in 1..Len(hypotheques)}

\* C4 witness: a mortgage deposited on 12/03/2010 has been left out because of
\* the cancellation of the example, next to a mortgage that stays active
ActiveSiNonRadieeTemoin ==
    /\ Analyse
    /\ \E k \in 1..Len(hypotheques) :
        /\ hypotheques[k].date_depot = DateC
        /\ hypotheques[k].numero_ordre \notin NumerosActifs
    /\ \E n \in 1..Len(radiations) : radiations[n].nature_acte_redacteur = NatureRadiationC
    /\ NumerosActifs # {}

(***************************************************************************)
(* The first loop of analyser_hypotheques_actives: the two lists.          *)
(***************************************************************************)
\* the text, in capitals, holds the marker
Marque(texte, marqueur) ==
    \E p \in 1..Len(texte) :
        /\ p + Len(marqueur) - 1 <= Len(texte)
        /\ \A n \in 1..Len(marqueur) : UpperChar(texte[p + n - 1]) = marqueur[n]

\* the class the rule gives to a formality
Classe(fm) ==
    IF Marque(fm.nature_acte_redacteur, RADIATION) /\ Marque(fm.nature_acte_redacteur, TOTALE)
    THEN "radiation"
    ELSE IF \/ Marque(fm.nature_acte_redacteur, HYPOTHEQUE)
            \/ /\ Marque(fm.contenu, CREANCIERS)
               /\ Marque(fm.contenu, DEBITEUR) \/ Marque(fm.contenu, PROPRIETAIRES_IMMEUBLE)
    THEN "hypotheque"
    ELSE "autre"

\* the class of the act texts and contents that have a name here
ClasseAttendue(fm) ==
    IF fm.nature_acte_redacteur \in {NatureRadiationC, NatureRadiationB, NatureRadiationSansDate}
    THEN "radiation"
    ELSE IF fm.nature_acte_redacteur \in {NatureHypotheque, NatureHypothequeMinuscule}
    THEN "hypotheque"
    ELSE IF fm.contenu \in {ContenuImplicite, ContenuProprietaires, ContenuImpliciteParties}
    THEN "hypotheque"
    ELSE "autre"

\* C20: each turn of the first loop puts the formality among the cancellations
\* when its act text, in capitals, holds RADIATION and TOTALE; otherwise among
\* the mortgages when its act text holds HYPOTHEQUE or its content, in
\* capitals, holds the creditors marker with the debtor marker or the
\* property-owners marker; otherwise in neither list.  A formality that holds
\* both cancellation markers is never put among the mortgages, the mortgage
\* marker notwithstanding, and no other step touches the two lists
ClassementDesFormalites ==
    [][IF i_formalite' = i_formalite + 1
       THEN LET fm == formalites[i_formalite + 1]
                classe == Classe(fm)
            IN  /\ radiations' =
                       IF classe = "radiation" THEN Append(radiations, fm) ELSE radiations
                /\ hypotheques' =
                       IF classe = "hypotheque" THEN Append(hypotheques, fm) ELSE hypotheques
                /\ classe = ClasseAttendue(fm)
                /\ (Marque(fm.nature_acte_redacteur, RADIATION)
                        /\ Marque(fm.nature_acte_redacteur, TOTALE))
                       => hypotheques' = hypotheques
       ELSE UNCHANGED <<radiations, hypotheques>>]_vars

\* C20 witness: the first loop is over; a total cancellation whose act text
\* names the mortgage is among the cancellations and not among the mortgages,
\* a sale whose content holds the creditors and the property-owners markers is
\* among the mortgages, and a partial cancellation is in neither list
ClassementDesFormalitesTemoin ==
    /\ pc = "activer"
    /\ \E k \in 1..Len(formalites) :
        /\ formalites[k].nature_acte_redacteur = NatureRadiationC
        /\ formalites[k] \in ToSet(radiations)
        /\ formalites[k] \notin ToSet(hypotheques)
    /\ \E k \in 1..Len(formalites) :
        /\ formalites[k].nature_acte_redacteur = NatureVente
        /\ formalites[k].contenu = ContenuProprietaires
        /\ formalites[k] \in ToSet(hypotheques)
    /\ \E k \in 1..Len(formalites) :
        /\ formalites[k].nature_acte_redacteur = NaturePartielleC
        /\ formalites[k] \notin ToSet(radiations)
        /\ formalites[k] \notin ToSet(hypotheques)

(***************************************************************************)
(* Properties of analyser_mutations                                        *)
(***************************************************************************)
\* both analyses have returned
AnalyseMutations == pc = "mutations"

\* the numero_ordre values of the formalities classified as mortgages
NumerosHypotheques == {hypotheques[k].numero_ordre : k \in 1..Len(hypotheques)}

\* the numero_ordre values of the mutations emitted
NumerosMutations == {mutations[k].numero_ordre : k \in 1..Len(mutations)}

\* C13: once both analyses have returned, no formality classified as a
\* mortgage, by the explicit marker or by the creditors/debtor fallback, is
\* among the mutations emitted.
HypothequesHorsMutations ==
    AnalyseMutations => NumerosHypotheques \cap NumerosMutations = {}

\* the same for the mortgages detected by the explicit marker alone
HypothequesExplicitesHorsMutations ==
    AnalyseMutations =>
        \A k \in 1..Len(hypotheques) :
            EstHypothequeExplicite(hypotheques[k])
                => hypotheques[k].numero_ordre \notin NumerosMutations

(***************************************************************************)
(* classifier_type_acte                                                    *)
(***************************************************************************)
MaxMorceaux == 3

DE == <<68, 69>>  \* "DE"
LA == <<76, 65>>  \* "LA"
FORMALITE_ACCENT == <<70, 79, 82, 77, 65, 76, 73, 84, 201>>  \* "FORMALITÉ"
FORMALITE == <<70, 79, 82, 77, 65, 76, 73, 84, 69>>  \* "FORMALITE"
VENTE == <<86, 69, 78, 84, 69>>  \* "VENTE"
Espace == <<32>>  \* " "
Numero3 == <<32, 110, 176, 51>>  \* " n°3"
DeLaFormaliteAccent == <<32, 100, 101, 32, 108, 97, 32, 102, 111, 114, 109, 97, 108, 105, 116, 233>>  \* " de la formalité"
DeLaFormalite == <<32, 100, 101, 32, 108, 97, 32, 102, 111, 114, 109, 97, 108, 105, 116, 101>>  \* " de la formalite"
DeLaFormaliteMajuscule == <<32, 68, 69, 32, 32, 76, 65, 32, 70, 79, 82, 77, 65, 76, 73, 84, 201>>  \* " DE  LA FORMALITÉ"
DeLaFormaliteColle == <<100, 101, 32, 108, 97, 32, 102, 111, 114, 109, 97, 108, 105, 116, 233>>  \* "de la formalité"

\* the word is at position p of s, case apart
MotEn(s, p, mot) ==
    p + Len(mot) - 1 <= Len(s) /\ SubSeq(Upper(s), p, p + Len(mot) - 1) = mot

\* \s+de\s+la\s+<mot> matches at position p, under re.IGNORECASE
PhraseEn(s, p, mot) ==
    \E q \in (p + 1)..Len(s) :
        /\ Blancs(s, p, q) /\ MotEn(s, q, DE)
        /\ \E r \in (q + 3)..Len(s) :
            /\ Blancs(s, q + 2, r) /\ MotEn(s, r, LA)
            /\ \E t \in (r + 3)..Len(s) :
                Blancs(s, r + 2, t) /\ MotEn(s, t, mot)

\* match.start() of re.search, 0 when there is no match
DebutPhrase(s, mot) ==
    IF \E p \in 1..Len(s) : PhraseEn(s, p, mot)
    THEN CHOOSE p \in 1..Len(s) :
             /\ PhraseEn(s, p, mot)
             /\ \A n \in 1..(p - 1) : ~PhraseEn(s, n, mot)
    ELSE 0

\* the body of the loop for a pattern that matches at position p
AvantPhrase(original, p) ==
    IF Strip(SubSeq(original, 1, p - 1)) # <<>>
    THEN Strip(SubSeq(original, 1, p - 1))
    ELSE original

\* the patterns are tried in the order of the list; the third and the fourth
\* are, case apart, the first and the second
classifier_type_acte(nature) ==
    LET nature_acte_original == Strip(nature)
    IN  IF DebutPhrase(nature_acte_original, FORMALITE_ACCENT) # 0
        THEN AvantPhrase(nature_acte_original,
                         DebutPhrase(nature_acte_original, FORMALITE_ACCENT))
        ELSE IF DebutPhrase(nature_acte_original, FORMALITE) # 0
        THEN AvantPhrase(nature_acte_original,
                         DebutPhrase(nature_acte_original, FORMALITE))
        ELSE nature_acte_original

\* the pieces the texts are made of
Morceaux ==
    {VENTE, Espace, Numero3, DeLaFormaliteAccent, DeLaFormalite,
     DeLaFormaliteMajuscule, DeLaFormaliteColle}

\* the texts of at most MaxMorceaux pieces
Natures == {Concat(c) : c \in UNION {[1..n -> Morceaux] : n \in 0..MaxMorceaux}}

InitClassifier ==
    /\ nature_acte \in Natures
    /\ pc = "classifier"
    /\ type_acte = <<>>
    /\ i_comptage = 0
    /\ comptage_types = <<>>
    /\ comptage_trie = <<>>
    /\ formalites = <<>>
    /\ ReposReconstitution
    /\ ReposFormalites
    /\ ReposHypotheques
    /\ ReposRequetes
    /\ ReposTableau

\* the text has no match of a pattern: it is returned trimmed
RetourInchange ==
    /\ pc = "classifier"
    /\ DebutPhrase(Strip(nature_acte), FORMALITE_ACCENT) = 0
    /\ DebutPhrase(Strip(nature_acte), FORMALITE) = 0
    /\ type_acte' = classifier_type_acte(nature_acte)
    /\ pc' = "classe"
    /\ UNCHANGED <<nature_acte, i_comptage, comptage_types, comptage_trie>>
    /\ UNCHANGED horsActes

\* a pattern matches: what precedes the match is returned
RetourAvantPhrase ==
    /\ pc = "classifier"
    /\ \/ DebutPhrase(Strip(nature_acte), FORMALITE_ACCENT) # 0
       \/ DebutPhrase(Strip(nature_acte), FORMALITE) # 0
    /\ type_acte' = classifier_type_acte(nature_acte)
    /\ pc' = "classe"
    /\ UNCHANGED <<nature_acte, i_comptage, comptage_types, comptage_trie>>
    /\ UNCHANGED horsActes

NextClassifier ==
    \/ RetourInchange
    \/ RetourAvantPhrase

SpecClassifier == InitClassifier /\ [][NextClassifier]_vars

(***************************************************************************)
(* Properties of classifier_type_acte                                      *)
(***************************************************************************)
\* the text holds the phrase in one of its accent/case variants, from p on
VarianteEn(s, p) ==
    /\ MotEn(s, p, DE)
    /\ \E r \in (p + 3)..Len(s) :
        /\ Blancs(s, p + 2, r) /\ MotEn(s, r, LA)
        /\ \E t \in (r + 3)..Len(s) :
            /\ Blancs(s, r + 2, t)
            /\ MotEn(s, t, FORMALITE_ACCENT) \/ MotEn(s, t, FORMALITE)

ContientVariante(s) == \E p \in 1..Len(s) : VarianteEn(s, p)

\* what precedes the first variant of the phrase, trimmed
AvantVariante(s) ==
    LET p == CHOOSE x \in 1..Len(s) :
                 VarianteEn(s, x) /\ \A n \in 1..(x - 1) : ~VarianteEn(s, n)
    IN  Strip(SubSeq(s, 1, p - 1))

\* C14: the value returned is the trimmed text before the phrase when the
\* text holds a variant of it and the trimmed text otherwise, and it never
\* holds a variant of the phrase itself.
AvantDeLaFormalite ==
    pc = "classe" =>
        /\ type_acte = IF ContientVariante(nature_acte)
                       THEN AvantVariante(nature_acte)
                       ELSE Strip(nature_acte)
        /\ ~ContientVariante(type_acte)

\* the two examples: "VENTE de la formalité n°3" and "VENTE" both give "VENTE"
ExemplesClassifier ==
    /\ classifier_type_acte(VENTE \o DeLaFormaliteAccent \o Numero3) = VENTE
    /\ classifier_type_acte(VENTE) = VENTE

\* the claim holds for the texts in which every variant of the phrase is of
\* the same spelling of "formalité" and follows a blank of the trimmed text
AvantDeLaFormaliteSimple ==
    (/\ pc = "classe"
     /\ \A p \in 1..Len(Strip(nature_acte)) :
            VarianteEn(Strip(nature_acte), p) => p > 1 /\ IsSpace(Strip(nature_acte)[p - 1])
     /\ \/ \A p \in 1..Len(nature_acte) : ~MotEn(nature_acte, p, FORMALITE_ACCENT)
        \/ \A p \in 1..Len(nature_acte) : ~MotEn(nature_acte, p, FORMALITE))
        => /\ type_acte = IF ContientVariante(nature_acte)
                          THEN AvantVariante(nature_acte)
                          ELSE Strip(nature_acte)
           /\ ~ContientVariante(type_acte)

(***************************************************************************)
(* extract_formalites_from_pdf: the count of the act types.  Here the      *)
(* formalities carry numero_ordre and nature_acte_redacteur.               *)
(***************************************************************************)
MaxComptees == 3

NON_TROUVE == <<78, 79, 78, 32, 84, 82, 79, 85, 86, 201>>  \* "NON TROUVÉ"
NonTrouveMinuscule == <<110, 111, 110, 32, 116, 114, 111, 117, 118, 233>>  \* "non trouvé"
DONATION == <<68, 79, 78, 65, 84, 73, 79, 78>>  \* "DONATION"
VenteEntouree == <<32, 86, 69, 78, 84, 69, 32>>  \* " VENTE "

\* "if nature_acte and nature_acte.upper() != "NON TROUVÉ"", nature_acte stripped
NatureComptee(nature) == Strip(nature) # <<>> /\ Upper(Strip(nature)) # NON_TROUVE

\* the label is a key of the dict
DejaVu(comptage, type) == \E k \in 1..Len(comptage) : comptage[k].type = type

\* comptage_types[type_acte] += 1, or = 1 for a new key
Compter(comptage, type) ==
    IF DejaVu(comptage, type)
    THEN [k \in 1..Len(comptage) |->
             IF comptage[k].type = type
             THEN [comptage[k] EXCEPT !.nombre = @ + 1]
             ELSE comptage[k]]
    ELSE Append(comptage, [type |-> type, nombre |-> 1])

\* variant: an item goes before the items of the same count
InsererParNombreAvantEgaux(tries, entree) ==
    LET p == Cardinality({k \in 1..Len(tries) : tries[k].nombre > entree.nombre})
    IN  SubSeq(tries, 1, p) \o <<entree>> \o SubSeq(tries, p + 1, Len(tries))

\* sorted(..., key=lambda x: x[1], reverse=True) is stable: an item goes after
\* every item whose count is not smaller than its own
InsererParNombre(tries, entree) ==
    LET p == Cardinality({k \in 1..Len(tries) : tries[k].nombre >= entree.nombre})
    IN  SubSeq(tries, 1, p) \o <<entree>> \o SubSeq(tries, p + 1, Len(tries))

RECURSIVE TrierParNombre(_)
TrierParNombre(comptage) ==
    IF comptage = <<>> THEN <<>>
    ELSE InsererParNombre(TrierParNombre(SubSeq(comptage, 1, Len(comptage) - 1)),
                          comptage[Len(comptage)])

\* the act texts tried
NaturesComptees ==
    {VENTE, VenteEntouree, VENTE \o DeLaFormaliteAccent \o Numero3, DONATION,
     NatureHypotheque, NonTrouve, NonTrouveMinuscule, <<>>, Espace}

\* the lists of at most MaxComptees formalities, numbered by position
ListesComptees ==
    {[k \in 1..Len(c) |-> [numero_ordre |-> k, nature_acte_redacteur |-> c[k]]] :
        c \in UNION {[1..n -> NaturesComptees] : n \in 0..MaxComptees}}

InitComptage ==
    /\ formalites \in ListesComptees
    /\ pc = "compter"
    /\ ReposActes
    /\ ReposRequetes
    /\ ReposTableau
    /\ ReposReconstitution
    /\ ReposFormalites
    /\ ReposHypotheques

\* the formality of the current turn of the counting loop
formalite_comptee == formalites[i_comptage + 1]

\* an empty or not-found act text is not counted
NatureIgnoree ==
    /\ pc = "compter"
    /\ i_comptage < Len(formalites)
    /\ ~NatureComptee(formalite_comptee.nature_acte_redacteur)
    /\ nature_acte' = Strip(formalite_comptee.nature_acte_redacteur)
    /\ i_comptage' = i_comptage + 1
    /\ UNCHANGED <<pc, type_acte, comptage_types, comptage_trie>>
    /\ UNCHANGED horsActes

\* the label is already a key: its count grows by one
TypeDejaVu ==
    /\ pc = "compter"
    /\ i_comptage < Len(formalites)
    /\ NatureComptee(formalite_comptee.nature_acte_redacteur)
    /\ DejaVu(comptage_types, classifier_type_acte(Strip(formalite_comptee.nature_acte_redacteur)))
    /\ nature_acte' = Strip(formalite_comptee.nature_acte_redacteur)
    /\ type_acte' = classifier_type_acte(nature_acte')
    /\ comptage_types' = Compter(comptage_types, type_acte')
    /\ i_comptage' = i_comptage + 1
    /\ UNCHANGED <<pc, comptage_trie>>
    /\ UNCHANGED horsActes

\* the label is new: it enters the dict with the count 1
TypeNouveau ==
    /\ pc = "compter"
    /\ i_comptage < Len(formalites)
    /\ NatureComptee(formalite_comptee.nature_acte_redacteur)
    /\ ~DejaVu(comptage_types, classifier_type_acte(Strip(formalite_comptee.nature_acte_redacteur)))
    /\ nature_acte' = Strip(formalite_comptee.nature_acte_redacteur)
    /\ type_acte' = classifier_type_acte(nature_acte')
    /\ comptage_types' = Compter(comptage_types, type_acte')
    /\ i_comptage' = i_comptage + 1
    /\ UNCHANGED <<pc, comptage_trie>>
    /\ UNCHANGED horsActes

\* comptage_trie = dict(sorted(...))
TrierComptage ==
    /\ pc = "compter"
    /\ i_comptage = Len(formalites)
    /\ comptage_trie' = TrierParNombre(comptage_types)
    /\ pc' = "compte"
    /\ UNCHANGED <<nature_acte, type_acte, i_comptage, comptage_types>>
    /\ UNCHANGED horsActes

NextComptage ==
    \/ NatureIgnoree
    \/ TypeDejaVu
    \/ TypeNouveau
    \/ TrierComptage

SpecComptage == InitComptage /\ [][NextComptage]_vars

(***************************************************************************)
(* Properties of the count of the act types                                *)
(***************************************************************************)
\* the formalities whose act text, once trimmed, is neither empty nor the
\* not-found sentinel in any case
Comptees ==
    {k \in 1..Len(formalites) :
        LET n == Strip(formalites[k].nature_acte_redacteur)
        IN  n # <<>> /\ Upper(n) # Upper(NonTrouve)}

\* the label of a formality
Label(k) == classifier_type_acte(formalites[k].nature_acte_redacteur)

\* the first formality counted under a label
PremiereVue(type) ==
    CHOOSE k \in Comptees : Label(k) = type /\ \A n \in Comptees : Label(n) = type => k <= n

RECURSIVE Somme(_)
Somme(nombres) == IF nombres = <<>> THEN 0 ELSE nombres[1] + Somme(Tail(nombres))

\* C15: the sorted count has one entry per label of a counted formality, the
\* count of a label is the number of counted formalities of that label, the
\* counts sum to the number of counted formalities, and the entries are in
\* order of falling count, equal counts in the order in which their labels
\* were first seen.
ComptageParType ==
    pc = "compte" =>
        /\ \A a, b \in 1..Len(comptage_trie) :
            comptage_trie[a].type = comptage_trie[b].type => a = b
        /\ {comptage_trie[a].type : a \in 1..Len(comptage_trie)} = {Label(k) : k \in Comptees}
        /\ \A a \in 1..Len(comptage_trie) :
            comptage_trie[a].nombre =
                Cardinality({k \in Comptees : Label(k) = comptage_trie[a].type})
        /\ Somme([a \in 1..Len(comptage_trie) |-> comptage_trie[a].nombre])
               = Cardinality(Comptees)
        /\ \A a, b \in 1..Len(comptage_trie) :
            a < b =>
                \/ comptage_trie[a].nombre > comptage_trie[b].nombre
                \/ /\ comptage_trie[a].nombre = comptage_trie[b].nombre
                   /\ PremiereVue(comptage_trie[a].type) < PremiereVue(comptage_trie[b].type)

\* C15 witness: a label first seen later, but counted twice, comes first
ComptageParTypeTemoin ==
    /\ pc = "compte"
    /\ Len(comptage_trie) >= 2
    /\ comptage_trie[1].nombre = 2
    /\ PremiereVue(comptage_trie[1].type) > PremiereVue(comptage_trie[2].type)

\* two labels of equal count have been returned, an act text that is not
\* counted having been passed over
ComptageEgauxTemoin ==
    /\ pc = "compte"
    /\ Len(comptage_trie) >= 2
    /\ comptage_trie[1].nombre = comptage_trie[2].nombre
    /\ Cardinality(Comptees) < Len(formalites)

(***************************************************************************)
(* app.py: analyze_ehf, the request that stages an upload, runs the        *)
(* pipeline on it and removes it.  The handler is a coroutine: it gives    *)
(* the event loop back at "await file.read()" only, so a request is two    *)
(* steps, up to the await and from the await to its return, and the steps  *)
(* of several requests interleave.  The staging folder is one directory of *)
(* the file system shared by all the requests.                             *)
(***************************************************************************)
MaxRequetes == 2

\* MAX_CONTENT_LENGTH = 50 * 1024 * 1024
MAX_CONTENT_LENGTH == 50 * 1024 * 1024

PDF == <<112, 100, 102>>  \* "pdf"

\* ALLOWED_EXTENSIONS = {"pdf"}
ALLOWED_EXTENSIONS == {PDF}

Point == 46  \* "."

NomA == <<97, 46, 112, 100, 102>>  \* "a.pdf"
NomB == <<98, 46, 112, 100, 102>>  \* "b.pdf"
NomAMajuscule == <<97, 46, 80, 68, 70>>  \* "a.PDF"
NomTexte == <<97, 46, 116, 120, 116>>  \* "a.txt"

LowerChar(c) ==
    IF (c >= 65 /\ c <= 90) \/ (c >= 192 /\ c <= 222 /\ c # 215) THEN c + 32 ELSE c

\* str.lower()
Lower(s) == [k \in 1..Len(s) |-> LowerChar(s[k])]

\* filename.rsplit('.', 1)[1], for a name that holds a point
ApresDernierPoint(nom) ==
    LET p == CHOOSE k \in 1..Len(nom) :
                 nom[k] = Point /\ \A n \in (k + 1)..Len(nom) : nom[n] # Point
    IN  SubSeq(nom, p + 1, Len(nom))

allowed_file(nom) ==
    /\ Point \in ToSet(nom)
    /\ Lower(ApresDernierPoint(nom)) \in ALLOWED_EXTENSIONS

Requetes == 1..MaxRequetes

\* the names a client may give to its upload
NomsFichiers == {<<>>, PDF, NomA, NomB, NomAMajuscule, NomTexte}

\* file.size: absent or zero, at the limit, over the limit
Tailles == {0, MAX_CONTENT_LENGTH, MAX_CONTENT_LENGTH + 1}

\* the bytes of the upload of request r: two bytes that name the request
Octets(r) == <<r, r>>

Televersements ==
    [Requetes -> [filename : NomsFichiers, size : Tailles]]

\* UPLOAD_FOLDER / filename: the entry of the staging folder the name designates
filepath(r) == file[r].filename

\* open(filepath, "wb"): the file at the path is emptied, or an empty one is made
OuvertureDossier(dossier, fs, chemin) ==
    IF dossier[chemin] # 0 THEN dossier ELSE [dossier EXCEPT ![chemin] = Len(fs) + 1]

OuvertureFichiers(dossier, fs, chemin) ==
    IF dossier[chemin] # 0 THEN [fs EXCEPT ![dossier[chemin]] = <<>>] ELSE Append(fs, <<>>)

\* f.write from the start of the file: the bytes replace what was at their place
Ecrire(ancien, octets) == octets \o SubSeq(ancien, Len(octets) + 1, Len(ancien))

\* a finally block that leaves the staged file in place
ApresFinallySansSuppression(dossier, chemin) == dossier

\* finally: if filepath.exists(): filepath.unlink()
ApresFinally(dossier, chemin) == [dossier EXCEPT ![chemin] = 0]

PasAppele == [appele |-> FALSE, existe |-> FALSE, octets |-> <<>>]

InitRequetes ==
    /\ pc = "requetes"
    /\ uploads_ehf = [n \in NomsFichiers |-> 0]
    /\ fichiers = <<>>
    /\ \E t \in Televersements :
        file = [r \in Requetes |->
                   [filename |-> t[r].filename, size |-> t[r].size, content |-> Octets(r)]]
    /\ etape = [r \in Requetes |-> "recue"]
    /\ descripteur = [r \in Requetes |-> 0]
    /\ lu = [r \in Requetes |-> PasAppele]
    /\ reponse = [r \in Requetes |-> "aucune"]
    /\ ReposReconstitution
    /\ ReposFormalites
    /\ formalites = <<>>
    /\ ReposHypotheques
    /\ ReposActes
    /\ ReposTableau

\* a request ends before it has staged anything
Rendre(r, issue) ==
    /\ etape' = [etape EXCEPT ![r] = "rendue"]
    /\ reponse' = [reponse EXCEPT ![r] = issue]

\* if not file.filename: raise HTTPException(status_code=400)
SansNom(r) ==
    /\ pc = "requetes"
    /\ etape[r] = "recue"
    /\ file[r].filename = <<>>
    /\ Rendre(r, "400")
    /\ UNCHANGED <<pc, uploads_ehf, fichiers, file, descripteur, lu>>
    /\ UNCHANGED horsRequetes

\* if not allowed_file(file.filename): the form again, with an error
TypeRefuse(r) ==
    /\ pc = "requetes"
    /\ etape[r] = "recue"
    /\ file[r].filename # <<>>
    /\ ~allowed_file(file[r].filename)
    /\ Rendre(r, "type")
    /\ UNCHANGED <<pc, uploads_ehf, fichiers, file, descripteur, lu>>
    /\ UNCHANGED horsRequetes

\* if file.size and file.size > MAX_CONTENT_LENGTH: the form again, with an error
TropVolumineux(r) ==
    /\ pc = "requetes"
    /\ etape[r] = "recue"
    /\ file[r].filename # <<>>
    /\ allowed_file(file[r].filename)
    /\ file[r].size # 0 /\ file[r].size > MAX_CONTENT_LENGTH
    /\ Rendre(r, "taille")
    /\ UNCHANGED <<pc, uploads_ehf, fichiers, file, descripteur, lu>>
    /\ UNCHANGED horsRequetes

\* the checks pass: the file is opened for writing and the request awaits
\* file.read()
Ouvrir(r) ==
    /\ pc = "requetes"
    /\ etape[r] = "recue"
    /\ file[r].filename # <<>>
    /\ allowed_file(file[r].filename)
    /\ ~(file[r].size # 0 /\ file[r].size > MAX_CONTENT_LENGTH)
    /\ uploads_ehf' = OuvertureDossier(uploads_ehf, fichiers, filepath(r))
    /\ fichiers' = OuvertureFichiers(uploads_ehf, fichiers, filepath(r))
    /\ descripteur' = [descripteur EXCEPT ![r] = uploads_ehf'[filepath(r)]]
    /\ etape' = [etape EXCEPT ![r] = "lecture"]
    /\ UNCHANGED <<pc, file, lu, reponse>>
    /\ UNCHANGED horsRequetes

\* file.read() raises: the file is closed as it is, the finally block runs and
\* the exception leaves the handler
LectureEchoue(r) ==
    /\ pc = "requetes"
    /\ etape[r] = "lecture"
    /\ uploads_ehf' = ApresFinally(uploads_ehf, filepath(r))
    /\ etape' = [etape EXCEPT ![r] = "rendue"]
    /\ reponse' = [reponse EXCEPT ![r] = "exception"]
    /\ UNCHANGED <<pc, fichiers, file, descripteur, lu>>
    /\ UNCHANGED horsRequetes

\* f.write raises when a part of the bytes only is written: the finally block
\* runs and the exception leaves the handler
EcritureEchoue(r) ==
    /\ pc = "requetes"
    /\ etape[r] = "lecture"
    /\ \E n \in 1..(Len(file[r].content) - 1) :
        fichiers' = [fichiers EXCEPT ![descripteur[r]] =
                        Ecrire(@, SubSeq(file[r].content, 1, n))]
    /\ uploads_ehf' = ApresFinally(uploads_ehf, filepath(r))
    /\ etape' = [etape EXCEPT ![r] = "rendue"]
    /\ reponse' = [reponse EXCEPT ![r] = "exception"]
    /\ UNCHANGED <<pc, file, descripteur, lu>>
    /\ UNCHANGED horsRequetes

\* the bytes are read and written, the file is closed, process_ehf_document
\* opens the path (a path that designates no file is a failure of the pipeline,
\* which it reports; a file it finds is analysed, or fails to be), the finally
\* block runs and the page is returned
Traiter(r) ==
    /\ pc = "requetes"
    /\ etape[r] = "lecture"
    /\ fichiers' = [fichiers EXCEPT ![descripteur[r]] = Ecrire(@, file[r].content)]
    /\ lu' = [lu EXCEPT ![r] =
                 IF uploads_ehf[filepath(r)] = 0
                 THEN [appele |-> TRUE, existe |-> FALSE, octets |-> <<>>]
                 ELSE [appele |-> TRUE, existe |-> TRUE,
                       octets |-> fichiers'[uploads_ehf[filepath(r)]]]]
    /\ \E analyse \in BOOLEAN :
        reponse' = [reponse EXCEPT ![r] =
                       IF lu'[r].existe /\ analyse THEN "resultat" ELSE "erreur"]
    /\ uploads_ehf' = ApresFinally(uploads_ehf, filepath(r))
    /\ etape' = [etape EXCEPT ![r] = "rendue"]
    /\ UNCHANGED <<pc, file, descripteur>>
    /\ UNCHANGED horsRequetes

NextRequetes ==
    \E r \in Requetes :
        \/ SansNom(r)
        \/ TypeRefuse(r)
        \/ TropVolumineux(r)
        \/ Ouvrir(r)
        \/ LectureEchoue(r)
        \/ EcritureEchoue(r)
        \/ Traiter(r)

SpecRequetes == InitRequetes /\ [][NextRequetes]_vars

\* the request has staged its upload: it has opened its path for writing
AStage(r) == descripteur[r] # 0

EnAttente(s) == etape[s] = "lecture"

\* C17: whatever the interleaving of the requests at their await, a request
\* that runs the pipeline finds at its path the bytes it uploaded, and a step
\* of one request leaves the staged file of every other request that has not
\* processed it yet in the folder, with its bytes
StrictementParRequete ==
    [][/\ \A r \in Requetes :
            lu'[r].appele => lu'[r].existe /\ lu'[r].octets = file[r].content
       /\ \A s \in Requetes :
            EnAttente(s) /\ EnAttente(s)' =>
                /\ uploads_ehf'[filepath(s)] = uploads_ehf[filepath(s)]
                /\ fichiers'[descripteur[s]] = fichiers[descripteur[s]]]_vars

\* two requests that give the same name to their uploads are waiting together
MemeNomEnAttente ==
    \E r, s \in Requetes :
        /\ r # s
        /\ EnAttente(r) /\ EnAttente(s)
        /\ filepath(r) = filepath(s)

\* requests that give different names to their uploads do not meet: each one
\* finds its own bytes at its path
NomsDistinctsSepares ==
    \A r \in Requetes :
        (lu[r].appele /\ \A s \in Requetes \ {r} : filepath(s) # filepath(r))
            => lu[r].existe /\ lu[r].octets = file[r].content


(***************************************************************************)
(* extract_tableau_derniere_page: the volume cell of a row of the table.   *)
(***************************************************************************)
MaxValeurs == 2

NL == 10
A_ESPACES == <<32, 224, 32>>  \* " à "
Volume57 == <<53, 55>>  \* "57"
Plage7A9 == <<55, 32, 224, 32, 57>>  \* "7 à 9"
Plage08A10 == <<48, 56, 32, 224, 32, 49, 48>>  \* "08 à 10"
Plage9A7 == <<57, 32, 224, 32, 55>>  \* "9 à 7"
PlageLarge == <<55, 32, 32, 224, 32, 32, 56>>  \* "7  à  8"
PlageX == <<55, 32, 224, 32, 120>>  \* "7 à x"
PlageTriple == <<55, 32, 224, 32, 56, 32, 224, 32, 57>>  \* "7 à 8 à 9"
Blanche == <<32>>  \* " "

\* str.split(sep) for a separator of any length
RECURSIVE SplitSep(_, _)
SplitSep(s, sep) ==
    IF Contains(s, sep)
    THEN LET p == CHOOSE k \in 0..(Len(s) - Len(sep)) :
                      /\ SubSeq(s, k + 1, k + Len(sep)) = sep
                      /\ \A n \in 0..(k - 1) : SubSeq(s, n + 1, n + Len(sep)) # sep
         IN  <<SubSeq(s, 1, p)>> \o SplitSep(SubSeq(s, p + Len(sep) + 1, Len(s)), sep)
    ELSE <<s>>

\* int(s) does not raise ValueError: blanks around an optional sign and digits
EstEntier(s) ==
    LET t == Strip(s)
        chiffres == IF t # <<>> /\ t[1] \in {43, 45} THEN Tail(t) ELSE t
    IN  /\ chiffres # <<>>
        /\ \A k \in 1..Len(chiffres) : chiffres[k] >= 48 /\ chiffres[k] <= 57

RECURSIVE ValeurChiffres(_)
ValeurChiffres(c) ==
    IF c = <<>> THEN 0 ELSE 10 * ValeurChiffres(SubSeq(c, 1, Len(c) - 1)) + (c[Len(c)] - 48)

\* int(s)
Entier(s) ==
    LET t == Strip(s)
    IN  IF t[1] = 45 THEN 0 - ValeurChiffres(Tail(t))
        ELSE IF t[1] = 43 THEN ValeurChiffres(Tail(t))
        ELSE ValeurChiffres(t)

RECURSIVE Decimal(_)
Decimal(n) == IF n < 10 THEN <<48 + n>> ELSE Append(Decimal(n \div 10), 48 + (n % 10))

\* str(num)
StrEntier(num) == IF num < 0 THEN <<45>> \o Decimal(0 - num) ELSE Decimal(num)

\* [str(num) for num in range(start, end + 1)]
PlageDeveloppee(start, end) ==
    IF end < start THEN <<>> ELSE [k \in 1..(end - start + 1) |-> StrEntier(start + k - 1)]

\* what one element of volume_parts adds to processed_volumes
VolumesDeLaPartie(volume_part) ==
    IF Contains(volume_part, A_ESPACES)
    THEN LET parts == SplitSep(volume_part, A_ESPACES)
         IN  IF Len(parts) = 2 /\ EstEntier(parts[1]) /\ EstEntier(parts[2])
             THEN PlageDeveloppee(Entier(parts[1]), Entier(parts[2]))
             ELSE <<volume_part>>
    ELSE <<volume_part>>

\* [v.strip() for v in s.split('\n') if v.strip()]
LignesNonBlanches(s) ==
    LET lignes == Split(s, NL)
        RECURSIVE Garder(_)
        Garder(k) == IF k > Len(lignes) THEN <<>>
                     ELSE IF Strip(lignes[k]) # <<>>
                          THEN <<Strip(lignes[k])>> \o Garder(k + 1)
                          ELSE Garder(k + 1)
    IN  Garder(1)

\* str(data_row[n]).strip() if len(data_row) > n and data_row[n] else ""
Cellule(row, n) == IF Len(row) > n /\ row[n + 1] # <<>> THEN Strip(row[n + 1]) ELSE <<>>

\* immeuble["volume"]: a string or a list of strings
VolumeTexte(s) == [liste |-> FALSE, valeur |-> s]
VolumeListe(l) == [liste |-> TRUE, valeur |-> l]

\* the values a volume cell may hold on one line
ValeursVolume == {Volume57, Plage7A9, Plage08A10, Plage9A7, PlageLarge, PlageX,
                  PlageTriple, Blanche}

\* the volume cells: up to MaxValeurs lines
RECURSIVE CellulesDe(_)
CellulesDe(n) ==
    IF n = 1 THEN ValeursVolume
    ELSE {c \o <<NL>> \o v : c \in CellulesDe(n - 1), v \in ValeursVolume}

CellulesVolume == {<<>>} \cup UNION {CellulesDe(n) : n \in 1..MaxValeurs}

\* the rows of the table: code, commune, designation, volume, lot
LignesTableau == {<<Code75, CommuneRef, CJ42, c, Lot9>> : c \in CellulesVolume}

InitTableau ==
    /\ pc = "tableau"
    /\ data_row \in LignesTableau
    /\ volume = VolumeTexte(<<>>)
    /\ volume_parts = <<>>
    /\ i_volume_part = 0
    /\ processed_volumes = <<>>
    /\ ReposReconstitution
    /\ ReposFormalites
    /\ formalites = <<>>
    /\ ReposHypotheques
    /\ ReposActes
    /\ ReposRequetes

\* the cell has no line break: the volume is the text of the cell
VolumeSeul ==
    /\ pc = "tableau"
    /\ ~(NL \in ToSet(Cellule(data_row, 3)))
    /\ volume' = VolumeTexte(Cellule(data_row, 3))
    /\ pc' = "fin_tableau"
    /\ UNCHANGED <<data_row, volume_parts, i_volume_part, processed_volumes>>
    /\ UNCHANGED horsTableau

\* "if immeuble['volume'] and '\n' in immeuble['volume']": the lines of the cell
VolumesMultiples ==
    /\ pc = "tableau"
    /\ NL \in ToSet(Cellule(data_row, 3))
    /\ volume' = VolumeTexte(Cellule(data_row, 3))
    /\ volume_parts' = LignesNonBlanches(Cellule(data_row, 3))
    /\ processed_volumes' = <<>>
    /\ i_volume_part' = 1
    /\ pc' = "volume_part"
    /\ UNCHANGED data_row
    /\ UNCHANGED horsTableau

\* a line without " à "
PartieSimple ==
    /\ pc = "volume_part"
    /\ i_volume_part <= Len(volume_parts)
    /\ ~Contains(volume_parts[i_volume_part], A_ESPACES)
    /\ processed_volumes' = Append(processed_volumes, volume_parts[i_volume_part])
    /\ i_volume_part' = i_volume_part + 1
    /\ UNCHANGED <<pc, data_row, volume, volume_parts>>
    /\ UNCHANGED horsTableau

\* a line with " à ": the range, or the line as it is
PartiePlage ==
    /\ pc = "volume_part"
    /\ i_volume_part <= Len(volume_parts)
    /\ Contains(volume_parts[i_volume_part], A_ESPACES)
    /\ processed_volumes' = processed_volumes \o VolumesDeLaPartie(volume_parts[i_volume_part])
    /\ i_volume_part' = i_volume_part + 1
    /\ UNCHANGED <<pc, data_row, volume, volume_parts>>
    /\ UNCHANGED horsTableau

\* immeuble["volume"] = processed_volumes
FinVolumes ==
    /\ pc = "volume_part"
    /\ i_volume_part > Len(volume_parts)
    /\ volume' = VolumeListe(processed_volumes)
    /\ pc' = "fin_tableau"
    /\ UNCHANGED <<data_row, volume_parts, i_volume_part, processed_volumes>>
    /\ UNCHANGED horsTableau

NextTableau ==
    \/ VolumeSeul
    \/ VolumesMultiples
    \/ PartieSimple
    \/ PartiePlage
    \/ FinVolumes

SpecTableau == InitTableau /\ [][NextTableau]_vars

(***************************************************************************)
(* Properties of the volume cell.                                          *)
(***************************************************************************)
\* the values the cell holds: its lines, blanks apart
ValeursDeLaCellule == LignesNonBlanches(data_row[4])

\* the text is an integer in digits, blanks around it apart
EnChiffres(t) == Strip(t) # <<>> /\ \A n \in 1..Len(Strip(t)) : EstChiffre(Strip(t)[n])

\* a value written "A à B" with integers A and B
EstPlage(v) ==
    \E k \in 1..(Len(v) - 2) :
        /\ SubSeq(v, k, k + 2) = A_ESPACES
        /\ EnChiffres(SubSeq(v, 1, k - 1))
        /\ EnChiffres(SubSeq(v, k + 3, Len(v)))

\* the integers from A to B of a range, written in decimal
EntiersDeLaPlage(v) ==
    LET k == CHOOSE n \in 1..(Len(v) - 2) : SubSeq(v, n, n + 2) = A_ESPACES
        a == Nombre(Strip(SubSeq(v, 1, k - 1)))
        b == Nombre(Strip(SubSeq(v, k + 3, Len(v))))
    IN  [n \in 1..(IF b < a THEN 0 ELSE b - a + 1) |-> Decimal(a + n - 1)]

\* the volumes of the cell, every range replaced by its integers
VolumesAttendus ==
    Concat([k \in 1..Len(ValeursDeLaCellule) |->
               IF EstPlage(ValeursDeLaCellule[k])
               THEN EntiersDeLaPlage(ValeursDeLaCellule[k])
               ELSE <<ValeursDeLaCellule[k]>>])

\* C25: once the row is read, a volume cell that holds a range "A à B", alone
\* or among several lines, has become the list of its values in which every
\* range is replaced by the integers from A to B
PlagesDeveloppees ==
    (/\ pc = "fin_tableau"
     /\ \E k \in 1..Len(ValeursDeLaCellule) : EstPlage(ValeursDeLaCellule[k]))
        => /\ volume.liste
           /\ volume.valeur = VolumesAttendus

\* the same for the cells of several values
PlagesDeveloppeesSiPlusieurs ==
    (/\ pc = "fin_tableau"
     /\ Len(ValeursDeLaCellule) > 1
     /\ \E k \in 1..Len(ValeursDeLaCellule) : EstPlage(ValeursDeLaCellule[k]))
        => /\ volume.liste
           /\ volume.valeur = VolumesAttendus

\* a cell of two values, one of them a range, has been read
PlagesDeveloppeesSiPlusieursTemoin ==
    /\ pc = "fin_tableau"
    /\ ValeursDeLaCellule = <<Volume57, Plage08A10>>
    /\ volume = VolumeListe(<<Volume57, <<56>>, <<57>>, <<49, 48>>>>)

\* the cell of one range keeps its text
PlageSeuleGardee ==
    /\ pc = "fin_tableau"
    /\ data_row[4] = Plage7A9
    /\ volume = VolumeTexte(Plage7A9)


(***************************************************************************)
(* The three analyses and their arguments: analyser_hypotheques_actives    *)
(* and analyser_mutations on a list of formalities, reconstituer_propriete *)
(* on a list of mutations and the reference property.                      *)
(***************************************************************************)
InitAnalyses == Init \/ InitHypotheques

NextAnalyses == Next \/ NextHypotheques

SpecAnalyses == InitAnalyses /\ [][NextAnalyses]_vars

\* the positions of reconstituer_propriete
EnReconstitution == pc \in {"debut", "mutation", "ligne", "verifier", "construire", "fin"}

\* C26: no step of the mortgage analysis, of the mutation analysis or of the
\* reconstruction changes the list of formalities or a field of a formality, a
\* mutation record already produced, or the reference property; the
\* reconstruction leaves the list of mutations it is given as it is
EnregistrementsImmuables ==
    [][/\ formalites' = formalites
       /\ immeubles' = immeubles
       /\ Len(mutations') >= Len(mutations)
       /\ \A k \in 1..Len(mutations) : mutations'[k] = mutations[k]
       /\ EnReconstitution => mutations' = mutations]_vars

\* C26 witness, the reconstruction: it has returned records from a list of
\* mutations that its sort had to reorder and from a lot set completed from the
\* mutations, and the reference property still has no lot
EnregistrementsImmuablesTemoin ==
    /\ pc = "fin"
    /\ propriete_actuelle # <<>>
    /\ mutations_triees # mutations
    /\ lots_ref # {}
    /\ LotsImmeuble(immeubles[1]) = {}

\* the two analyses of the formalities have returned, a cancellation and a
\* mortgage classified, a mutation produced
AnalysesFaites ==
    /\ pc = "mutations"
    /\ radiations # <<>>
    /\ hypotheques # <<>>
    /\ mutations # <<>>
    /\ Len(formalites) = MaxFormalites

====
